---- MODULE Spec2Model ----
(***************************************************************************)
(* localgoose: the predicate evaluator (Model._matchQuery), the update     *)
(* operator executor (Model._applyUpdateOperators) and the collection      *)
(* operations of src/src/Model.js; the aggregation pipeline (Aggregate)    *)
(* of src/unnamed/part_002; SchemaType.cast of src/src/SchemaType.js and   *)
(* Schema.validate of src/src/Schema.js.                                   *)
(*                                                                         *)
(* JavaScript values are tagged records [t, v]; a string is the sequence  *)
(* of its characters; a plain object (filter, operator map, update spec,  *)
(* pipeline stage, foreign document) is the ordered sequence of its       *)
(* entries [k, val]; a stored document is a function from its own keys to *)
(* values.  The outcome of a predicate evaluation is "T", "F" or "R" (an  *)
(* exception was raised).                                                  *)
(***************************************************************************)
EXTENDS Integers, Sequences, FiniteSets, TLC

\* ------------------------------------------------------------------ bounds
MaxNum == 2
MaxSub == 2
MaxCalls == 2
MaxDocs == 2
MaxTime == 1

\* ------------------------------------------------------------ value model
Undefined == [t |-> "undefined", v |-> 0]
Null == [t |-> "null", v |-> 0]
NaN == [t |-> "nan", v |-> 0]
PosInfinity == [t |-> "inf", v |-> 1]
NegInfinity == [t |-> "inf", v |-> -1]
Num(n) == [t |-> "number", v |-> n]
Str(s) == [t |-> "string", v |-> s]
Bool(b) == [t |-> "boolean", v |-> b]
Arr(s) == [t |-> "array", v |-> s]
Obj(es) == [t |-> "object", v |-> es]
DateAt(ms) == [t |-> "date", v |-> ms]
Entry(key, value) == [k |-> key, val |-> value]
\* the outcome of a call that threw
Thrown == [t |-> "thrown", v |-> 0]

IsFinite(x) == x.t = "number"
IsNaN(x) == x.t = "nan"
IsNumber(x) == x.t \in {"number", "nan", "inf"}
IsPrimitive(x) == x.t \in {"undefined", "null", "number", "nan", "inf", "string", "boolean"}

\* doc[key]
Get(doc, key) == IF key \in DOMAIN doc THEN doc[key] ELSE Undefined

\* value.<key> on an ordered object
RECURSIVE EntryAt(_, _, _)
EntryAt(es, key, i) ==
  IF i > Len(es) THEN Undefined
  ELSE IF es[i].k = key THEN es[i].val ELSE EntryAt(es, key, i + 1)
Prop(obj, key) == IF obj.t = "object" THEN EntryAt(obj.v, key, 1) ELSE Undefined

\* ------------------------------------------------------------- characters
CharOrder ==
  << " ", "(", ",", "-", "0", "1", "2", "3", "4", "5", "6", "7", "8", "9", "A", "B",
     "I", "N", "O", "[", "]", "a", "b", "c", "d", "e", "f", "i", "j", "l",
     "n", "o", "r", "s", "t", "u", "y" >>
CharCode(c) == CHOOSE i \in 1..Len(CharOrder) : CharOrder[i] = c
Digits == << "0", "1", "2", "3", "4", "5", "6", "7", "8", "9" >>
IsDigit(c) == \E i \in 1..10 : Digits[i] = c
DigitValue(c) == (CHOOSE i \in 1..10 : Digits[i] = c) - 1
LowerLetters == << "a", "b", "c", "d", "e", "f", "i", "j", "l", "n", "o", "r", "s", "t", "u", "y" >>
UpperLetters == << "A", "B", "C", "D", "E", "F", "I", "J", "L", "N", "O", "R", "S", "T", "U", "Y" >>
LowerChar(c) ==
  IF \E i \in 1..Len(UpperLetters) : UpperLetters[i] = c
  THEN LowerLetters[CHOOSE i \in 1..Len(UpperLetters) : UpperLetters[i] = c] ELSE c
UpperChar(c) ==
  IF \E i \in 1..Len(LowerLetters) : LowerLetters[i] = c
  THEN UpperLetters[CHOOSE i \in 1..Len(LowerLetters) : LowerLetters[i] = c] ELSE c
toLowerCase(s) == [i \in 1..Len(s) |-> LowerChar(s[i])]
toUpperCase(s) == [i \in 1..Len(s) |-> UpperChar(s[i])]
\* String.prototype.trim for strings whose only white space is the space
RECURSIVE trim(_)
trim(s) ==
  IF Len(s) = 0 THEN s
  ELSE IF s[1] = " " THEN trim(Tail(s))
  ELSE IF s[Len(s)] = " " THEN trim(SubSeq(s, 1, Len(s) - 1))
  ELSE s

\* String.prototype.includes
includes(s, sub) ==
  \E i \in 0..(Len(s) - Len(sub)) : \A j \in 1..Len(sub) : s[i + j] = sub[j]

\* lexicographic s < u by code unit
RECURSIVE StrLess(_, _, _)
StrLess(s, u, i) ==
  IF i > Len(u) THEN FALSE
  ELSE IF i > Len(s) THEN TRUE
  ELSE IF s[i] = u[i] THEN StrLess(s, u, i + 1)
  ELSE CharCode(s[i]) < CharCode(u[i])

RECURSIVE NatToChars(_)
NatToChars(n) == IF n < 10 THEN << Digits[n + 1] >> ELSE NatToChars(n \div 10) \o << Digits[(n % 10) + 1] >>

RECURSIVE CharsToNat(_, _, _)
CharsToNat(s, i, acc) == IF i > Len(s) THEN acc ELSE CharsToNat(s, i + 1, 10 * acc + DigitValue(s[i]))

\* ---------------------------------------------------- JavaScript coercions
RECURSIVE JsString(_)
RECURSIVE Join(_, _)
Join(a, i) ==
  IF i > Len(a) THEN << >>
  ELSE (IF i > 1 THEN << "," >> ELSE << >>)
       \o (IF a[i].t \in {"undefined", "null"} THEN << >> ELSE JsString(a[i]))
       \o Join(a, i + 1)
JsString(x) ==
  CASE x.t = "undefined" -> << "u", "n", "d", "e", "f", "i", "n", "e", "d" >>
    [] x.t = "null" -> << "n", "u", "l", "l" >>
    [] x.t = "boolean" -> IF x.v THEN << "t", "r", "u", "e" >> ELSE << "f", "a", "l", "s", "e" >>
    [] x.t = "string" -> x.v
    [] x.t = "nan" -> << "N", "a", "N" >>
    [] x.t = "inf" -> (IF x.v < 0 THEN << "-" >> ELSE << >>) \o << "I", "n", "f", "i", "n", "i", "t", "y" >>
    [] x.t = "number" -> IF x.v < 0 THEN << "-" >> \o NatToChars(0 - x.v) ELSE NatToChars(x.v)
    [] x.t = "array" -> Join(x.v, 1)
    [] x.t = "date" -> NatToChars(x.v)
    [] OTHER -> << "[", "o", "b", "j", "e", "c", "t", " ", "O", "b", "j", "e", "c", "t", "]" >>

ToPrimitive(x) ==
  IF IsPrimitive(x) THEN x
  ELSE IF x.t = "date" THEN Num(x.v)
  ELSE Str(JsString(x))

\* Number(p) for a primitive p
NumberOf(p) ==
  CASE p.t = "undefined" -> NaN
    [] p.t = "null" -> Num(0)
    [] p.t = "boolean" -> IF p.v THEN Num(1) ELSE Num(0)
    [] IsNumber(p) -> p
    [] OTHER -> IF p.v = << >> THEN Num(0)
                ELSE IF \A i \in 1..Len(p.v) : IsDigit(p.v[i]) THEN Num(CharsToNat(p.v, 1, 0))
                ELSE NaN
ToNumber(x) == NumberOf(ToPrimitive(x))

\* Boolean(x)
Truthy(x) ==
  CASE x.t \in {"undefined", "null"} -> FALSE
    [] x.t = "boolean" -> x.v
    [] x.t = "number" -> x.v # 0
    [] x.t = "nan" -> FALSE
    [] x.t = "string" -> x.v # << >>
    [] OTHER -> TRUE

\* typeof x
typeof(x) ==
  CASE x.t = "undefined" -> << "u", "n", "d", "e", "f", "i", "n", "e", "d" >>
    [] IsNumber(x) -> << "n", "u", "m", "b", "e", "r" >>
    [] x.t = "string" -> << "s", "t", "r", "i", "n", "g" >>
    [] x.t = "boolean" -> << "b", "o", "o", "l", "e", "a", "n" >>
    [] OTHER -> << "o", "b", "j", "e", "c", "t" >>

\* a === b (also Array.prototype.includes on the values modelled here):
\* primitives by value, NaN apart; two composite values are distinct objects,
\* one read from the collection file and one supplied by the caller.
StrictEquals(a, b) ==
  /\ IsPrimitive(a) /\ IsPrimitive(b)
  /\ a.t = b.t /\ a.v = b.v
  /\ ~IsNaN(a)

\* numeric a < b on the extended number line, false when either is NaN
NumLess(a, b) ==
  IF IsNaN(a) \/ IsNaN(b) THEN FALSE
  ELSE IF a.t = "inf" THEN a.v < 0 /\ ~(b.t = "inf" /\ b.v < 0)
  ELSE IF b.t = "inf" THEN b.v > 0
  ELSE a.v < b.v

\* a < b (abstract relational comparison)
JsLess(a, b) ==
  LET pa == ToPrimitive(a)
      pb == ToPrimitive(b)
  IN IF pa.t = "string" /\ pb.t = "string" THEN StrLess(pa.v, pb.v, 1)
     ELSE NumLess(ToNumber(pa), ToNumber(pb))
JsEqNum(a, b) ==
  LET pa == ToPrimitive(a)
      pb == ToPrimitive(b)
  IN IF pa.t = "string" /\ pb.t = "string" THEN pa.v = pb.v
     ELSE LET na == ToNumber(pa)
              nb == ToNumber(pb)
          IN ~IsNaN(na) /\ ~IsNaN(nb) /\ na = nb

\* a % b
JsRem(a, b) ==
  IF ~IsFinite(a) \/ IsNaN(b) THEN NaN
  ELSE IF ~IsFinite(b) THEN a
  ELSE IF b.v = 0 THEN NaN
  ELSE LET aa == IF a.v < 0 THEN 0 - a.v ELSE a.v
           ab == IF b.v < 0 THEN 0 - b.v ELSE b.v
       IN IF a.v < 0 THEN Num(0 - (aa % ab)) ELSE Num(aa % ab)

\* Object.entries(value)
IdxKey == << "0", "1", "2", "3", "4", "5", "6", "7", "8", "9" >>
Entries(value) ==
  CASE value.t = "object" -> value.v
    [] value.t = "array" -> [i \in 1..Len(value.v) |-> Entry(IdxKey[i], value.v[i])]
    [] value.t = "string" -> [i \in 1..Len(value.v) |-> Entry(IdxKey[i], Str(<< value.v[i] >>))]
    [] OTHER -> << >>

Code(b) == IF b THEN "T" ELSE "F"

\* ------------------------------------------------------- new RegExp(p, f)
\* Patterns are literal character sequences; "(" alone is the unterminated
\* group that makes the RegExp constructor throw, and a flag outside
\* "dgimsuy" (or a repeated flag) makes it throw as well.
RegExpFlags == {"d", "g", "i", "m", "s", "u", "y"}
RegExpThrows(pattern, flags) ==
  \/ \E i \in 1..Len(pattern) : pattern[i] = "("
  \/ \E i \in 1..Len(flags) : flags[i] \notin RegExpFlags
  \/ \E i, j \in 1..Len(flags) : i # j /\ flags[i] = flags[j]
\* regex.test(s)
RegExpTest(pattern, flags, s) ==
  IF \E i \in 1..Len(flags) : flags[i] = "i"
  THEN includes(toLowerCase(s), toLowerCase(pattern))
  ELSE includes(s, pattern)

\* ------------------------------------------------- Model._matchQuery (1st)
\* a membership test that looks at the first element only
ArrayIncludes_FirstOnly(arr, item) == Len(arr) > 0 /\ StrictEquals(arr[1], item)
\* Array.prototype.includes(item) on docValue
ArrayIncludes(arr, item) == \E i \in 1..Len(arr) : StrictEquals(arr[i], item)

\* the body of the operator switch for one [operator, operand] entry of the
\* operator map `value` of field `key`
MatchOperator(doc, key, value, operator, operand) ==
  LET dv == Get(doc, key) IN
  CASE operator = "$gt" -> Code(JsLess(operand, dv))
    [] operator = "$gte" -> Code(JsLess(operand, dv) \/ JsEqNum(dv, operand))
    [] operator = "$lt" -> Code(JsLess(dv, operand))
    [] operator = "$lte" -> Code(JsLess(dv, operand) \/ JsEqNum(dv, operand))
    [] operator = "$ne" -> Code(~StrictEquals(dv, operand))
    [] operator = "$in" ->
         LET docValue == IF dv.t = "array" THEN dv.v ELSE << dv >> IN
         IF operand.t # "array" THEN "R"
         ELSE Code(\E i \in 1..Len(operand.v) : ArrayIncludes(docValue, operand.v[i]))
    [] operator = "$nin" ->
         LET docVal == IF dv.t = "array" THEN dv.v ELSE << dv >> IN
         IF operand.t # "array" THEN "R"
         ELSE Code(~\E i \in 1..Len(operand.v) : ArrayIncludes(docVal, operand.v[i]))
    [] operator = "$regex" ->
         LET opts == Prop(value, "$options")
             flags == IF opts.t = "undefined" THEN << >> ELSE JsString(opts)
             pattern == IF operand.t = "undefined" THEN << >> ELSE JsString(operand)
         IN IF RegExpThrows(pattern, flags) THEN "R"
            ELSE Code(RegExpTest(pattern, flags, JsString(dv)))
    [] operator = "$exists" ->
         Code((Truthy(operand) /\ dv.t # "undefined") \/ (~Truthy(operand) /\ dv.t = "undefined"))
    [] operator = "$type" -> Code(operand.t = "string" /\ typeof(dv) = operand.v)
    [] operator = "$mod" ->
         IF operand.t \in {"undefined", "null"} THEN "R"
         ELSE IF operand.t # "array" \/ Len(operand.v) < 2 THEN "F"
         ELSE LET r == JsRem(ToNumber(dv), ToNumber(operand.v[1]))
              IN Code(StrictEquals(r, operand.v[2]))
    [] operator = "$text" ->
         IF dv.t # "string" THEN "F"
         ELSE IF operand.t # "string" THEN "R"
         ELSE Code(includes(toLowerCase(dv.v), toLowerCase(operand.v)))
    [] OTHER -> "F"

RECURSIVE _matchQuery(_, _)
RECURSIVE everyCondition(_, _, _)
RECURSIVE someCondition(_, _, _)
RECURSIVE everyOperator(_, _, _, _)
RECURSIVE everyEntry(_, _, _)

\* one step of every: the outcome r of the callback ends the loop unless it
\* is true; and of some: unless it is false
EveryStep(r, rest) == IF r = "T" THEN rest ELSE r
SomeStep(r, rest) == IF r = "F" THEN rest ELSE r

\* value.every(condition => this._matchQuery(doc, condition))
everyCondition(doc, conds, i) ==
  IF i > Len(conds) THEN "T"
  ELSE EveryStep(_matchQuery(doc, conds[i]), everyCondition(doc, conds, i + 1))

\* value.some(condition => this._matchQuery(doc, condition))
someCondition(doc, conds, i) ==
  IF i > Len(conds) THEN "F"
  ELSE SomeStep(_matchQuery(doc, conds[i]), someCondition(doc, conds, i + 1))

\* Object.entries(value).every(([operator, operand]) => switch ...)
everyOperator(doc, key, value, i) ==
  LET es == Entries(value) IN
  IF i > Len(es) THEN "T"
  ELSE EveryStep(MatchOperator(doc, key, value, es[i].k, es[i].val), everyOperator(doc, key, value, i + 1))

\* the callback of Object.entries(query).every for one [key, value] entry
MatchEntry(doc, key, value) ==
  IF key = "$and" THEN
    IF value.t # "array" THEN "R" ELSE everyCondition(doc, value.v, 1)
  ELSE IF key = "$or" THEN
    IF value.t # "array" THEN "R" ELSE someCondition(doc, value.v, 1)
  ELSE IF key = "$nor" THEN
    IF value.t # "array" THEN "R"
    ELSE LET r == someCondition(doc, value.v, 1)
         IN IF r = "R" THEN "R" ELSE Code(r = "F")
  ELSE IF Truthy(value) /\ ~IsPrimitive(value) THEN everyOperator(doc, key, value, 1)
  ELSE Code(StrictEquals(Get(doc, key), value))

everyEntry(doc, es, i) ==
  IF i > Len(es) THEN "T"
  ELSE EveryStep(MatchEntry(doc, es[i].k, es[i].val), everyEntry(doc, es, i + 1))

\* Model._matchQuery(doc, query); Object.entries(null) and
\* Object.entries(undefined) throw a TypeError
_matchQuery(doc, query) ==
  IF query.t \in {"undefined", "null"} THEN "R"
  ELSE everyEntry(doc, Entries(query), 1)

\* ------------------------------------------------- Model._matchQuery (2nd)
\* The second Model class of Model.js: no logical keys, eight operators.
MatchOperatorLegacy(doc, key, value, operator, operand) ==
  IF operator \in {"$gt", "$gte", "$lt", "$lte", "$ne", "$in", "$nin", "$regex"}
  THEN MatchOperator(doc, key, value, operator, operand)
  ELSE "F"

RECURSIVE everyOperatorLegacy(_, _, _, _)
everyOperatorLegacy(doc, key, value, i) ==
  LET es == Entries(value) IN
  IF i > Len(es) THEN "T"
  ELSE LET r == MatchOperatorLegacy(doc, key, value, es[i].k, es[i].val)
       IN IF r = "T" THEN everyOperatorLegacy(doc, key, value, i + 1) ELSE r

MatchEntryLegacy(doc, key, value) ==
  IF Truthy(value) /\ ~IsPrimitive(value) THEN everyOperatorLegacy(doc, key, value, 1)
  ELSE Code(StrictEquals(Get(doc, key), value))

RECURSIVE everyEntryLegacy(_, _, _)
everyEntryLegacy(doc, es, i) ==
  IF i > Len(es) THEN "T"
  ELSE LET r == MatchEntryLegacy(doc, es[i].k, es[i].val)
       IN IF r = "T" THEN everyEntryLegacy(doc, es, i + 1) ELSE r

_matchQueryLegacy(doc, query) ==
  IF query.t \in {"undefined", "null"} THEN "R"
  ELSE everyEntryLegacy(doc, Entries(query), 1)

\* ------------------------------------------------------ JS arithmetic
\* a + b
JsAdd(a, b) ==
  LET pa == ToPrimitive(a)
      pb == ToPrimitive(b)
  IN IF pa.t = "string" \/ pb.t = "string" THEN Str(JsString(pa) \o JsString(pb))
     ELSE LET na == ToNumber(pa)
              nb == ToNumber(pb)
          IN IF IsNaN(na) \/ IsNaN(nb) THEN NaN
             ELSE IF na.t = "inf" THEN (IF nb.t = "inf" /\ nb.v # na.v THEN NaN ELSE na)
             ELSE IF nb.t = "inf" THEN nb
             ELSE Num(na.v + nb.v)
\* a * b
JsMul(a, b) ==
  LET na == ToNumber(a)
      nb == ToNumber(b)
      sgn(x) == IF x.v < 0 THEN -1 ELSE IF x.v > 0 THEN 1 ELSE 0
  IN IF IsNaN(na) \/ IsNaN(nb) THEN NaN
     ELSE IF na.t = "inf" \/ nb.t = "inf"
          THEN (IF sgn(na) * sgn(nb) = 0 THEN NaN ELSE [t |-> "inf", v |-> sgn(na) * sgn(nb)])
     ELSE Num(na.v * nb.v)
\* Math.min(a, b), Math.max(a, b)
MathMin(a, b) ==
  LET na == ToNumber(a)
      nb == ToNumber(b)
  IN IF IsNaN(na) \/ IsNaN(nb) THEN NaN ELSE IF NumLess(nb, na) THEN nb ELSE na
MathMax(a, b) ==
  LET na == ToNumber(a)
      nb == ToNumber(b)
  IN IF IsNaN(na) \/ IsNaN(nb) THEN NaN ELSE IF NumLess(na, nb) THEN nb ELSE na
\* a || b
OrElse(a, b) == IF Truthy(a) THEN a ELSE b

\* 32-bit integer operators &, |, ^ on two's-complement operands, computed
\* on the low 30 bits and the high 2 bits apart
Two30 == 1073741824
RECURSIVE BitOp(_, _, _, _)
BitOp(kind, a, b, w) ==
  IF w = 0 THEN 0
  ELSE LET x == a % 2
           y == b % 2
           bit == CASE kind = "and" -> IF x = 1 /\ y = 1 THEN 1 ELSE 0
                    [] kind = "or" -> IF x = 1 \/ y = 1 THEN 1 ELSE 0
                    [] OTHER -> IF x # y THEN 1 ELSE 0
       IN bit + 2 * BitOp(kind, a \div 2, b \div 2, w - 1)
JsBit(kind, a, b) ==
  LET na == ToNumber(a)
      nb == ToNumber(b)
      ia == IF IsFinite(na) THEN na.v ELSE 0
      ib == IF IsFinite(nb) THEN nb.v ELSE 0
      low == BitOp(kind, ia % Two30, ib % Two30, 30)
      high == BitOp(kind, (ia \div Two30) % 4, (ib \div Two30) % 4, 2)
  IN Num((IF high >= 2 THEN high - 4 ELSE high) * Two30 + low)

\* if (ops.and !== undefined) doc[field] &= ops.and; then the same for or
\* and for xor
RECURSIVE BitSteps(_, _, _, _)
BitSteps(a, ops, kinds, i) ==
  IF i > Len(kinds) THEN a
  ELSE BitSteps(IF Prop(ops, kinds[i]).t # "undefined" THEN JsBit(kinds[i], a, Prop(ops, kinds[i])) ELSE a,
                ops, kinds, i + 1)

\* ------------------------------------------------------- document helpers
Put(doc, key, value) == [f \in (DOMAIN doc) \cup {key} |-> IF f = key THEN value ELSE doc[f]]
Delete(doc, key) == [f \in (DOMAIN doc) \ {key} |-> doc[f]]
\* Object.assign(doc, value)
RECURSIVE Assign(_, _, _)
Assign(doc, es, i) == IF i > Len(es) THEN doc ELSE Assign(Put(doc, es[i].k, es[i].val), es, i + 1)

\* property names that occur as string values ($rename targets)
KeyChars ==
  [ score |-> << "s", "c", "o", "r", "e" >>,
    tags |-> << "t", "a", "g", "s" >>,
    total |-> << "t", "o", "t", "a", "l" >>,
    meta |-> << "m", "e", "t", "a" >> ]
KeyOf(chars) == CHOOSE f \in DOMAIN KeyChars : KeyChars[f] = chars

\* filter / remove helpers on arrays
RECURSIVE FilterSeq(_, _, _)
FilterSeq(a, keep, i) ==
  IF i > Len(a) THEN << >>
  ELSE (IF keep[i] THEN << a[i] >> ELSE << >>) \o FilterSeq(a, keep, i + 1)

\* ---------------------------------------- Model.applyTimestamps(doc)
applyTimestamps(doc, clock) ==
  LET d1 == IF ~Truthy(Get(doc, "createdAt")) THEN Put(doc, "createdAt", DateAt(clock)) ELSE doc
  IN Put(d1, "updatedAt", DateAt(clock))

\* ------------------------------- Model._applyUpdateOperators(doc, update)
\* doc[field] + amount, without the default
IncField_NoDefault(cur, amount) == JsAdd(cur, amount)
\* (doc[field] || 0) + amount
IncField(cur, amount) == JsAdd(OrElse(cur, Num(0)), amount)
\* (doc[field] || 0) * factor
MulField(cur, factor) == JsMul(OrElse(cur, Num(0)), factor)
\* Math.min(doc[field] || Infinity, limit)
MinField(cur, limit) == MathMin(OrElse(cur, PosInfinity), limit)
\* Math.max(doc[field] || -Infinity, limit)
MaxField(cur, limit) == MathMax(OrElse(cur, NegInfinity), limit)
\* Object.assign(doc, value) whatever the options
SetOnInsert_Always(doc, value, options) == Assign(doc, Entries(value), 1)
\* if (options.upsert) Object.assign(doc, value)
SetOnInsert(doc, value, options) ==
  IF Truthy(Prop(options, "upsert")) THEN Assign(doc, Entries(value), 1) ELSE doc

\* the forEach callback of one operator for one [field, operand] entry
ApplyField(doc, op, field, x, clock) ==
  LET cur == Get(doc, field) IN
  CASE op = "$unset" -> Delete(doc, field)
    [] op = "$inc" -> Put(doc, field, IncField(cur, x))
    [] op = "$mul" -> Put(doc, field, MulField(cur, x))
    [] op = "$min" -> Put(doc, field, MinField(cur, x))
    [] op = "$max" -> Put(doc, field, MaxField(cur, x))
    [] op = "$rename" ->
         IF cur.t # "undefined" THEN Delete(Put(doc, KeyOf(x.v), cur), field) ELSE doc
    [] op = "$currentDate" ->
         IF x = Bool(TRUE) \/ Prop(x, "$type") = Str(<< "d", "a", "t", "e" >>)
         THEN Put(doc, field, DateAt(clock))
         ELSE Put(doc, field, Num(clock))
    [] op = "$push" ->
         Put(doc, field, Arr((IF cur.t = "array" THEN cur.v ELSE << >>) \o << x >>))
    [] op = "$pull" ->
         IF cur.t = "array"
         THEN Put(doc, field,
                  Arr(FilterSeq(cur.v,
                                [i \in 1..Len(cur.v) |->
                                   _matchQuery([item |-> cur.v[i]], Obj(<< Entry("item", x) >>)) # "T"],
                                1)))
         ELSE doc
    [] op = "$addToSet" ->
         LET a == IF cur.t = "array" THEN cur.v ELSE << >>
         IN Put(doc, field, Arr(IF ArrayIncludes(a, x) THEN a ELSE a \o << x >>))
    [] op = "$pop" ->
         IF cur.t = "array"
         THEN Put(doc, field,
                  Arr(IF Len(cur.v) = 0 THEN << >>
                      ELSE IF x = Num(-1) THEN Tail(cur.v)
                      ELSE SubSeq(cur.v, 1, Len(cur.v) - 1)))
         ELSE doc
    [] op = "$pullAll" ->
         IF cur.t = "array"
         THEN Put(doc, field,
                  Arr(FilterSeq(cur.v, [i \in 1..Len(cur.v) |-> ~ArrayIncludes(x.v, cur.v[i])], 1)))
         ELSE doc
    [] op = "$bit" ->
         IF IsNumber(cur)
         THEN Put(doc, field, BitSteps(cur, x, << "and", "or", "xor" >>, 1))
         ELSE doc
    [] OTHER -> doc

RECURSIVE ApplyFields(_, _, _, _, _)
ApplyFields(doc, op, es, i, clock) ==
  IF i > Len(es) THEN doc
  ELSE ApplyFields(ApplyField(doc, op, es[i].k, es[i].val, clock), op, es, i + 1, clock)

\* one case of the switch over the update's top-level keys
ApplyOperator(doc, key, value, options, clock) ==
  CASE key = "$set" -> Assign(doc, Entries(value), 1)
    [] key = "$setOnInsert" -> SetOnInsert(doc, value, options)
    [] key \in {"$unset", "$inc", "$mul", "$min", "$max", "$rename", "$currentDate", "$push",
                "$pull", "$addToSet", "$pop", "$pullAll", "$bit"} ->
         ApplyFields(doc, key, Entries(value), 1, clock)
    [] OTHER -> doc

RECURSIVE ApplyOperators(_, _, _, _, _)
ApplyOperators(doc, es, i, options, clock) ==
  IF i > Len(es) THEN doc
  ELSE ApplyOperators(ApplyOperator(doc, es[i].k, es[i].val, options, clock), es, i + 1, options, clock)

\* an increment that does not look at the versionKey option
IncrementVersion_Always(doc, versioning) ==
  Put(doc, "__v", JsAdd(OrElse(Get(doc, "__v"), Num(0)), Num(1)))
\* the version increment that follows the loop
IncrementVersion(doc, versioning) ==
  IF versioning THEN Put(doc, "__v", JsAdd(OrElse(Get(doc, "__v"), Num(0)), Num(1))) ELSE doc

\* versioning: this.schema.options.versionKey !== false
_applyUpdateOperators(doc, update, options, versioning, clock) ==
  applyTimestamps(IncrementVersion(ApplyOperators(doc, Entries(update), 1, options, clock), versioning), clock)

\* ------------------------------------------- inputs of the evaluator runs
SeqsUpTo(S, n) == UNION {[1..m -> S] : m \in 0..n}
Filter1(key, value) == Obj(<< Entry(key, value) >>)
Filter2(k1, v1, k2, v2) == Obj(<< Entry(k1, v1), Entry(k2, v2) >>)

\* Query.regex(path, val, options) called with its three arguments: the
\* conditions entry it stores; options = 'i' when undefined is passed
regex(path, val, options) ==
  Filter1(path, Filter2("$regex", val, "$options",
                        IF options.t = "undefined" THEN Str(<< "i" >>) ELSE options))

TagStrings == {Str(<< "a" >>), Str(<< "b" >>), Str(<< "c" >>)}
TagLists == {Arr(l) : l \in SeqsUpTo(TagStrings, 2)}
NameStrings == {Str(<< "a", "b" >>), Str(<< "A", "B" >>), Str(<< "b" >>)}
Numbers == {Num(n) : n \in 0..MaxNum}

\* documents: one varying field beside fixed others
MatchDocs ==
  {[_id |-> Str(<< "1" >>), name |-> Str(<< "a", "b" >>), tags |-> t] : t \in TagLists \cup TagStrings \cup {Undefined}}
  \cup {[_id |-> Str(<< "1" >>), name |-> Str(<< "a", "b" >>)]}
  \cup {[_id |-> Str(<< "1" >>), name |-> n, score |-> Num(1)] : n \in NameStrings}
  \cup {[_id |-> Str(<< "1" >>), score |-> x] : x \in Numbers \cup {Null, Undefined, Num(-1)}}
  \cup {[_id |-> Str(<< "1" >>), items |-> Arr(l)] :
          l \in SeqsUpTo({Obj(<< Entry("n", x) >>) : x \in Numbers}, 2)}

InFilters ==
  {Filter1("tags", Filter1(op, l)) :
     op \in {"$in", "$nin"}, l \in TagLists \cup {Arr(<< Undefined >>), Null, Num(1), Str(<< "a" >>)}}
RegexPatterns == {Str(<< "a" >>), Str(<< "A", "B" >>), Str(<< "b" >>), Str(<< "c" >>), Str(<< "(" >>)}
RegexOptions == {Str(<< "i" >>), Str(<< >>), Str(<< "g" >>), Str(<< "x" >>)}
RegexFilters ==
  {regex("name", p, f) : p \in RegexPatterns, f \in RegexOptions \cup {Undefined}}
  \cup {Filter1("name", Filter1("$regex", p)) : p \in RegexPatterns}
  \cup {Filter1("name", Filter2("$options", f, "$regex", p)) : p \in {Str(<< "a" >>)}, f \in RegexOptions}
ScoreFilters ==
  {Filter1("score", Filter1(op, n)) :
     op \in {"$gt", "$gte", "$lt", "$lte", "$ne", "$exists", "$size", "$foo"}, n \in Numbers}
  \cup {Filter1("score", n) : n \in Numbers \cup {Null}}
  \cup {Filter1("score", Filter1("$mod", m)) : m \in {Arr(<< Num(2), Num(0) >>), Arr(<< Num(0), Num(0) >>), Null, Num(2)}}
  \cup {Filter1("score", Filter1("$type", ty)) : ty \in {Str(typeof(Num(0))), Str(typeof(Null))}}
  \cup {Filter1("name", Filter1("$text", x)) : x \in {Str(<< "A" >>), Str(<< "c" >>), Num(1)}}
  \cup {Filter1("score", Filter2(o1, Num(0), o2, Num(MaxNum))) :
          o1 \in {"$gt", "$gte", "$foo"}, o2 \in {"$lt", "$lte", "$foo"}}
ElemFilters ==
  {Filter1("items", Filter1("$elemMatch", Filter1("n", x))) : x \in Numbers}
  \cup {Filter1("items", Filter1("$elemMatch", Filter1("n", Filter1("$gt", x)))) : x \in Numbers}
  \cup {Filter1("tags", Filter1("$elemMatch", Filter1("n", Num(1))))}

\* the sub-filters and entries that logical and multi-entry filters combine
SubFilters ==
  { Filter1("score", Num(1)),
    Filter1("score", Filter1("$gt", Num(0))),
    Filter1("name", Str(<< "a", "b" >>)),
    Filter1("tags", Filter1("$in", Arr(<< Str(<< "a" >> ) >>))),
    Filter1("score", Filter1("$foo", Num(1))),
    Filter1("name", Filter1("$regex", Str(<< "(" >>))),
    Obj(<< >>),
    Null }
LogicalFilters ==
  {Filter1(op, Arr(l)) : op \in {"$and", "$or", "$nor"}, l \in SeqsUpTo(SubFilters, MaxSub)}
  \cup {Filter1(op, x) : op \in {"$and", "$or", "$nor"}, x \in {Null, Num(1)}}
  \cup {Filter1("$and", Arr(<< Filter1("$or", Arr(<< f, g >>)), Filter1("$nor", Arr(<< g >>)) >>)) :
          f, g \in SubFilters \ {Null}}
MultiFilters ==
  {Obj(f.v \o g.v) : f, g \in {h \in SubFilters \ {Null} : h.v # << >>}}
  \cup {Obj(f.v \o << Entry("$or", Arr(<< g, h >>)) >>) : f, g, h \in {x \in SubFilters : x # Null /\ x.v # << >> /\ x.v[1].k = "score"}}

MatchFilters ==
  InFilters \cup RegexFilters \cup ScoreFilters \cup ElemFilters \cup LogicalFilters
  \cup {f \in MultiFilters : \A i, j \in 1..Len(f.v) : i # j => f.v[i].k # f.v[j].k}
  \cup {Obj(<< >>), Null, Undefined}

\* --------------------------------------------------------------- variables
\* the evaluator run: its two arguments, its outcome, the class evaluated
VARIABLES mDoc, mQuery, mResult, mImpl
\* the executor run: the document as first given, before the latest call
\* and now; the calls' arguments; schema.options.versionKey !== false; the
\* clock; the number of calls made
VARIABLES aFirst, aIn, aDoc, aUpdate, aOptions, aVersioning, aClock, aCalls
\* the collection: the documents of the collection file in file order, the
\* clock, schema.options.versionKey !== false, the ObjectId generator, and for
\* each stored document the _id it was given when it was created
VARIABLES docs, now, versioning, nextId, given
\* the aggregation: this.pipeline, the documents model._find() returns, the foreign
\* collection file read by _getCollection, the value of exec's docs, and the
\* position of the Aggregate object: idle, invalid (the constructor threw),
\* built, done, raised (exec threw)
VARIABLES pipeline, collection, foreign, result, status
\* one SchemaType, a value, what cast returns for the value and what it
\* returns for that result ("none": cast not called yet)
VARIABLES schemaType, val, once, twice
\* a Schema's _paths, the data given to validate, and the list validate
\* returned (called: validate has returned)
VARIABLES paths, document, errors

matchVars == << mDoc, mQuery, mResult, mImpl >>
applyVars == << aFirst, aIn, aDoc, aUpdate, aOptions, aVersioning, aClock, aCalls >>
collVars == << docs, now, versioning, nextId, given >>
aggVars == << pipeline, collection, foreign, result, status >>
schemaVars == << schemaType, val, once, twice, paths, document, errors >>

EmptyDoc == << >>
NoOptions == Obj(<< >>)
MatchIdle == mDoc = EmptyDoc /\ mQuery = Obj(<< >>) /\ mResult = "none" /\ mImpl = "idle"
ApplyIdle ==
  /\ aFirst = EmptyDoc /\ aIn = EmptyDoc /\ aDoc = EmptyDoc
  /\ aUpdate = Obj(<< >>) /\ aOptions = NoOptions
  /\ aVersioning = TRUE /\ aClock = 0 /\ aCalls = 0
CollIdle == docs = << >> /\ now = 0 /\ versioning = TRUE /\ nextId = 1 /\ given = << >>
AggIdle ==
  /\ pipeline = << >> /\ collection = << >> /\ foreign = [exists |-> FALSE, docs |-> << >>]
  /\ result = << >> /\ status = "idle"
NotCalled == [t |-> "none", v |-> 0]
NoErrors == [called |-> FALSE, list |-> << >>]
SchemaIdle ==
  /\ schemaType = << >> /\ val = Undefined /\ once = NotCalled /\ twice = NotCalled
  /\ paths = << >> /\ document = EmptyDoc /\ errors = NoErrors

\* ------------------------------------------ variables of later sections
\* Model.create(array): the _createOne calls in flight (each with its data,
\* its position and the array readJSON returned to it) and the documents the
\* file held when create was called
VARIABLES calls, stored
\* one Document obtained from the model: whether it was constructed, its
\* _doc, the latest assignment doc.field = value, and whether save() has
\* resolved since that assignment
VARIABLES obtained, _doc, assigned, saved
\* the fold of one $group group: the documents folded into it so far and the
\* group object of the Map (output field -> accumulator state)
VARIABLES folded, accumulators
\* one SchemaType under construction: this.validators, the validators
\* registered so far through validate/enum/min/max/match (in order), and one
\* doValidate run: its value, the validators it invoked in order, and the
\* arguments of its calls of fn ("none": doValidate not called yet)
VARIABLES thisValidators, registered, checkedValue, invoked, fnCalls
\* one evaluation of _evaluateExpression: its two arguments and what it
\* returned ("none": not called yet; Thrown: it raised)
VARIABLES expression, onDoc, evaluated
\* one Query: how it was made ("none", "query", "clone"), this.conditions,
\* this._conditions, whether the two are the same object, this._limit, the
\* _conditions of the query a clone was made from, the number of builder
\* calls made, what exec resolved to and what Model.exists resolved to
VARIABLES made, queryConditions, _conditions, aliased, _limit, clonedFrom, builderCalls, selected, existed
\* one Connection: readyState, the names in this.models and this.collections,
\* whether dbPath exists on disk, the last call made, the last of connect /
\* disconnect / close / destroy with its outcome, and whether the last call
\* threw
VARIABLES readyState, models, collections, directory, lastCall, lifecycle, raised

createVars == << calls, stored >>
saveVars == << obtained, _doc, assigned, saved >>
foldVars == << folded, accumulators >>
typeVars == << thisValidators, registered, checkedValue, invoked, fnCalls >>
exprVars == << expression, onDoc, evaluated >>
queryVars == << made, queryConditions, _conditions, aliased, _limit, clonedFrom, builderCalls, selected, existed >>
connVars == << readyState, models, collections, directory, lastCall, lifecycle, raised >>
restVars == << createVars, saveVars, foldVars, typeVars, exprVars, queryVars, connVars >>
vars == << matchVars, applyVars, collVars, aggVars, schemaVars, restVars >>

\* the values of a section's variables while another specification runs
CreateIdle == calls = << >> /\ stored = << >>
NotAssigned == [field |-> "", value |-> Undefined]
SaveIdle == obtained = FALSE /\ _doc = EmptyDoc /\ assigned = NotAssigned /\ saved = FALSE
FoldIdle == folded = << >> /\ accumulators = EmptyDoc
TypeIdle == thisValidators = << >> /\ registered = << >> /\ checkedValue = NotCalled /\ invoked = << >> /\ fnCalls = << >>
ExprIdle == expression = Undefined /\ onDoc = EmptyDoc /\ evaluated = NotCalled
QueryIdle == made = "none" /\ queryConditions = Obj(<< >>) /\ _conditions = Obj(<< >>) /\ aliased = FALSE /\ _limit = Null /\ clonedFrom = Undefined /\ builderCalls = 0 /\ selected = NotCalled /\ existed = NotCalled
ConnIdle == readyState = 0 /\ models = {} /\ collections = {} /\ directory = FALSE /\ lastCall = "none" /\ lifecycle = "none" /\ raised = FALSE
RestIdle == CreateIdle /\ SaveIdle /\ FoldIdle /\ TypeIdle /\ ExprIdle /\ QueryIdle /\ ConnIdle

\* what the actions of one later section leave alone, and the other sections
\* being idle
quietVars == << matchVars, applyVars, aggVars, schemaVars >>
QuietIdle == MatchIdle /\ ApplyIdle /\ AggIdle /\ SchemaIdle
createFrame == << quietVars, saveVars, foldVars, typeVars, exprVars, queryVars, connVars >>
CreateAlone == QuietIdle /\ SaveIdle /\ FoldIdle /\ TypeIdle /\ ExprIdle /\ QueryIdle /\ ConnIdle
saveFrame == << quietVars, createVars, foldVars, typeVars, exprVars, queryVars, connVars >>
SaveAlone == QuietIdle /\ CreateIdle /\ FoldIdle /\ TypeIdle /\ ExprIdle /\ QueryIdle /\ ConnIdle
foldFrame == << quietVars, collVars, createVars, saveVars, typeVars, exprVars, queryVars, connVars >>
FoldAlone == QuietIdle /\ CollIdle /\ CreateIdle /\ SaveIdle /\ TypeIdle /\ ExprIdle /\ QueryIdle /\ ConnIdle
typeFrame == << quietVars, collVars, createVars, saveVars, foldVars, exprVars, queryVars, connVars >>
TypeAlone == QuietIdle /\ CollIdle /\ CreateIdle /\ SaveIdle /\ FoldIdle /\ ExprIdle /\ QueryIdle /\ ConnIdle
exprFrame == << quietVars, collVars, createVars, saveVars, foldVars, typeVars, queryVars, connVars >>
ExprAlone == QuietIdle /\ CollIdle /\ CreateIdle /\ SaveIdle /\ FoldIdle /\ TypeIdle /\ QueryIdle /\ ConnIdle
queryFrame == << quietVars, createVars, saveVars, foldVars, typeVars, exprVars, connVars >>
QueryAlone == QuietIdle /\ CreateIdle /\ SaveIdle /\ FoldIdle /\ TypeIdle /\ ExprIdle /\ ConnIdle
connFrame == << quietVars, collVars, createVars, saveVars, foldVars, typeVars, exprVars, queryVars >>
ConnAlone == QuietIdle /\ CollIdle /\ CreateIdle /\ SaveIdle /\ FoldIdle /\ TypeIdle /\ ExprIdle /\ QueryIdle

\* ------------------------------------------------ evaluator specification
InitMatch ==
  /\ mDoc \in MatchDocs
  /\ mQuery \in MatchFilters
  /\ mResult = "none"
  /\ mImpl = "none"
  /\ ApplyIdle /\ CollIdle /\ AggIdle /\ SchemaIdle /\ RestIdle

\* one evaluation of Model._matchQuery(mDoc, mQuery)
MatchQuery ==
  /\ mImpl = "none"
  /\ mResult' = _matchQuery(mDoc, mQuery)
  /\ mImpl' = "Model"
  /\ UNCHANGED << mDoc, mQuery, applyVars, collVars, aggVars, schemaVars, restVars >>

\* one evaluation by the second Model class
MatchQueryLegacy ==
  /\ mImpl = "none"
  /\ mResult' = _matchQueryLegacy(mDoc, mQuery)
  /\ mImpl' = "Legacy"
  /\ UNCHANGED << mDoc, mQuery, applyVars, collVars, aggVars, schemaVars, restVars >>

NextMatch == MatchQuery \/ MatchQueryLegacy
SpecMatch == InitMatch /\ [][NextMatch]_vars

\* ------------------------------------------------------ shapes of a filter
\* { <field>: { <op>: <operand> } }
IsFieldOp(q) ==
  /\ q.t = "object" /\ Len(q.v) = 1
  /\ q.v[1].val.t = "object" /\ Len(q.v[1].val.v) = 1
FieldOf(q) == q.v[1].k
OpOf(q) == q.v[1].val.v[1].k
OperandOf(q) == q.v[1].val.v[1].val
\* { <logical key>: [ sub-filters ] }
IsLogical(q) ==
  /\ q.t = "object" /\ Len(q.v) = 1
  /\ q.v[1].k \in {"$and", "$or", "$nor"}
  /\ q.v[1].val.t = "array"
\* the evaluator under test in the current state
Evaluated == mImpl \in {"Model", "Legacy"}
EvalSub(doc, q) == IF mImpl = "Legacy" THEN _matchQueryLegacy(doc, q) ELSE _matchQuery(doc, q)
\* a nested plain object read as a document
ObjDoc(o) == [key \in {o.v[i].k : i \in 1..Len(o.v)} |-> EntryAt(o.v, key, 1)]

\* C1: _matchQuery never raises, whatever the document and the filter; a
\* field entry whose operator map holds an unsupported operator key makes
\* the filter a non-match.
HasUnsupported(q) ==
  /\ q.t = "object" /\ Len(q.v) = 1 /\ q.v[1].val.t = "object"
  /\ \E i \in 1..Len(q.v[1].val.v) : q.v[1].val.v[i].k \in {"$foo", "$size", "$elemMatch"}
C1_NeverRaises ==
  (mImpl = "Model" /\ mQuery.t = "object") =>
    /\ mResult # "R"
    /\ HasUnsupported(mQuery) => mResult = "F"

\* C2: {field: {$in: L}} matches iff the document value, wrapped into a
\* one-element array when it is not an array, shares an element with L;
\* {field: {$nin: L}} matches iff it shares none.
Wrapped(x) == IF x.t = "array" THEN x.v ELSE << x >>
Shares(a, b) == \E i \in 1..Len(a), j \in 1..Len(b) : a[i] = b[j]
C2_InNin ==
  (Evaluated /\ IsFieldOp(mQuery) /\ OpOf(mQuery) \in {"$in", "$nin"} /\ OperandOf(mQuery).t = "array") =>
    LET shares == Shares(Wrapped(Get(mDoc, FieldOf(mQuery))), OperandOf(mQuery).v)
    IN mResult = Code(IF OpOf(mQuery) = "$in" THEN shares ELSE ~shares)
C2_Witness ==
  /\ mImpl = "Model"
  /\ Get(mDoc, "tags") = Arr(<< Str(<< "a" >>), Str(<< "b" >>) >>)
  /\ mQuery = Filter1("tags", Filter1("$in", Arr(<< Str(<< "b" >>), Str(<< "c" >>) >>)))
  /\ mResult = "T"

\* C3: {$and: [...]} matches iff all sub-filters match, {$or: [...]} iff at
\* least one does, {$nor: [...]} iff none does; a filter with several
\* entries is the conjunction of its entries (sub-filters and entries that
\* evaluate without raising).
EntryFilter(q, i) == Obj(<< q.v[i] >>)
C3_Logical ==
  /\ (Evaluated /\ IsLogical(mQuery)
        /\ \A i \in 1..Len(mQuery.v[1].val.v) : EvalSub(mDoc, mQuery.v[1].val.v[i]) # "R") =>
       LET subs == mQuery.v[1].val.v
           n == Cardinality({i \in 1..Len(subs) : EvalSub(mDoc, subs[i]) = "T"})
       IN CASE mQuery.v[1].k = "$and" -> mResult = Code(n = Len(subs))
            [] mQuery.v[1].k = "$or" -> mResult = Code(n > 0)
            [] OTHER -> mResult = Code(n = 0)
  /\ (Evaluated /\ mQuery.t = "object" /\ Len(mQuery.v) > 1
        /\ \A i \in 1..Len(mQuery.v) : EvalSub(mDoc, EntryFilter(mQuery, i)) # "R") =>
       mResult = Code(\A i \in 1..Len(mQuery.v) : EvalSub(mDoc, EntryFilter(mQuery, i)) = "T")

\* C4: a field entry {$regex: p, $options: f} as Query.regex produces it
\* matches exactly when the field's string value matches p under flags f;
\* when no flags are supplied (Query.regex then stores 'i') the match
\* ignores case.
IsRegexQuery(q) ==
  \E p \in RegexPatterns, f \in RegexOptions \cup {Undefined} : q = regex("name", p, f)
C4_Regex ==
  (mImpl = "Model" /\ IsRegexQuery(mQuery)) =>
    LET om == mQuery.v[1].val.v
        pattern == om[1].val.v
        flags == om[2].val.v
    IN ~RegExpThrows(pattern, flags) =>
         mResult = Code(RegExpTest(pattern, flags, JsString(Get(mDoc, FieldOf(mQuery)))))

\* C5: {field: {$elemMatch: F}} matches iff the field is an array and at
\* least one of its elements satisfies the nested filter F.
C5_ElemMatch ==
  (mImpl = "Model" /\ IsFieldOp(mQuery) /\ OpOf(mQuery) = "$elemMatch") =>
    LET dv == Get(mDoc, FieldOf(mQuery))
    IN mResult = Code(/\ dv.t = "array"
                      /\ \E i \in 1..Len(dv.v) :
                           dv.v[i].t = "object" /\ _matchQuery(ObjDoc(dv.v[i]), OperandOf(mQuery)) = "T")

\* --------------------------------------------------------- JSON round trip
\* JSON.stringify followed by JSON.parse with the date reviver (writeJSON,
\* readJSON): an undefined property is dropped, an undefined array element
\* and a non-finite number become null, a Date is written as its ISO string
\* and revived as a Date.
RECURSIVE JsonValue(_)
JsonValue(x) ==
  CASE x.t \in {"undefined", "nan", "inf"} -> Null
    [] x.t = "array" -> Arr([i \in 1..Len(x.v) |-> JsonValue(x.v[i])])
    [] x.t = "object" ->
         LET kept == FilterSeq(x.v, [i \in 1..Len(x.v) |-> x.v[i].val.t # "undefined"], 1)
         IN Obj([i \in 1..Len(kept) |-> Entry(kept[i].k, JsonValue(kept[i].val))])
    [] OTHER -> x
JsonDoc(doc) == [f \in {g \in DOMAIN doc : doc[g].t # "undefined"} |-> JsonValue(doc[f])]

\* ------------------------------------------------- executor specification
Update1(op, field, x) == Obj(<< Entry(op, Obj(<< Entry(field, x) >>)) >>)
Upsert(b) == Obj(<< Entry("upsert", Bool(b)) >>)
SignedNumbers == {Num(n) : n \in (0 - MaxNum)..MaxNum}
TheId == Str(<< "1" >>)

ApplyDocs ==
  {[_id |-> TheId, score |-> x, __v |-> Num(v)] : x \in SignedNumbers \cup {Undefined, Null}, v \in 0..1}
  \cup {[_id |-> TheId, score |-> x] : x \in SignedNumbers \cup {Undefined}}
  \cup {[_id |-> TheId, __v |-> Num(0)], [_id |-> TheId]}
  \cup {[_id |-> TheId, tags |-> t, __v |-> Num(0), createdAt |-> DateAt(0), updatedAt |-> DateAt(0)] :
          t \in {Arr(<< >>), Arr(<< Str(<< "a" >>), Str(<< "b" >>) >>), Num(3)}}

ApplyUpdates ==
  {Update1(op, "score", x) : op \in {"$inc", "$mul", "$min", "$max", "$set", "$setOnInsert"}, x \in SignedNumbers}
  \cup {Update1(op, "tags", Str(<< "a" >>)) : op \in {"$push", "$pull", "$addToSet", "$unset"}}
  \cup {Update1("$pop", "tags", x) : x \in {Num(1), Num(-1)}}
  \cup {Update1("$pullAll", "tags", Arr(<< Str(<< "b" >>) >>)),
        Update1("$rename", "score", Str(KeyChars.total)),
        Update1("$currentDate", "score", Bool(TRUE)),
        Update1("$currentDate", "score", Obj(<< Entry("$type", Str(<< "t", "i", "m", "e", "s", "t", "a", "m", "p" >>)) >>)),
        Update1("$bit", "score", Obj(<< Entry("and", Num(2)), Entry("or", Num(1)) >>)),
        Update1("$bit", "score", Obj(<< Entry("xor", Num(-1)) >>)),
        Update1("$unset", "__v", Num(1)),
        Update1("$set", "__v", Num(1)),
        Update1("$foo", "score", Num(1)),
        Obj(<< Entry("score", Num(1)) >>),
        Obj(<< >>)}
  \cup {Obj(<< Entry("$set", Obj(<< Entry("score", x) >>)), Entry(op, Obj(<< Entry("score", Num(1)) >>)) >>) :
          op \in {"$inc", "$mul", "$min", "$max"}, x \in {Undefined, Num(1)}}
  \cup {Obj(<< Entry("$setOnInsert", Obj(<< Entry("score", Num(1)), Entry("tags", Arr(<< >>)) >>)) >>)}

ApplyOptions == {NoOptions, Upsert(TRUE), Upsert(FALSE)}

InitApply ==
  /\ aFirst \in ApplyDocs
  /\ aIn = aFirst
  /\ aDoc = aFirst
  /\ aUpdate \in ApplyUpdates
  /\ aOptions \in ApplyOptions
  /\ aVersioning \in BOOLEAN
  /\ aClock = 1
  /\ aCalls = 0
  /\ MatchIdle
  /\ CollIdle /\ AggIdle /\ SchemaIdle /\ RestIdle

\* the document a call works on: the one given to the first call; later
\* calls are made by updateOne on what readJSON returns, the previous call's
\* document as writeJSON stored it
Loaded == IF aCalls = 0 THEN aDoc ELSE JsonDoc(aDoc)

\* one call this._applyUpdateOperators(doc, update, options), as
\* Model.updateOne makes it on the matched document; the document is
\* changed in place
ApplyUpdate ==
  /\ aCalls < MaxCalls
  /\ aIn' = Loaded
  /\ aDoc' = _applyUpdateOperators(Loaded, aUpdate, aOptions, aVersioning, aClock)
  /\ aCalls' = aCalls + 1
  /\ UNCHANGED << aFirst, aUpdate, aOptions, aVersioning, aClock, matchVars, collVars, aggVars, schemaVars, restVars >>

\* time passes between two calls
ApplyTick ==
  /\ aClock < 1 + MaxTime
  /\ aClock' = aClock + 1
  /\ UNCHANGED << aFirst, aIn, aDoc, aUpdate, aOptions, aVersioning, aCalls, matchVars, collVars, aggVars, schemaVars, restVars >>

NextApply == ApplyUpdate \/ ApplyTick
SpecApply == InitApply /\ [][NextApply]_vars

\* C7: {$inc: {f: a}} sets f to (current f, or 0 when f is missing or
\* undefined) + a, and {$mul: {f: k}} to (current f, or 0) * k.
IsUpdate1(u) == Len(u.v) = 1 /\ u.v[1].val.t = "object" /\ Len(u.v[1].val.v) = 1
UOp(u) == u.v[1].k
UField(u) == u.v[1].val.v[1].k
UOperand(u) == u.v[1].val.v[1].val
NumOrMissing(x) == x.t \in {"number", "undefined"}
ValueOr0(x) == IF x.t = "number" THEN x.v ELSE 0
C7_IncMul ==
  (aCalls > 0 /\ IsUpdate1(aUpdate) /\ UOp(aUpdate) \in {"$inc", "$mul"}
     /\ NumOrMissing(Get(aIn, UField(aUpdate))) /\ UOperand(aUpdate).t = "number") =>
    LET c == ValueOr0(Get(aIn, UField(aUpdate)))
        a == UOperand(aUpdate).v
    IN Get(aDoc, UField(aUpdate)) = Num(IF UOp(aUpdate) = "$inc" THEN c + a ELSE c * a)
C7_Witness ==
  /\ aCalls = 1
  /\ "score" \in DOMAIN aIn /\ aIn.score = Undefined
  /\ aUpdate = Update1("$inc", "score", Num(MaxNum))
  /\ aDoc.score = Num(MaxNum)

\* C8: for every numeric current value c (0 and negative values included)
\* and operand v, {$min: {f: v}} leaves f at the smaller of c and v and
\* {$max: {f: v}} at the larger.
C8_MinMax ==
  (aCalls > 0 /\ IsUpdate1(aUpdate) /\ UOp(aUpdate) \in {"$min", "$max"}
     /\ Get(aIn, UField(aUpdate)).t = "number" /\ UOperand(aUpdate).t = "number") =>
    LET c == Get(aIn, UField(aUpdate)).v
        v == UOperand(aUpdate).v
    IN Get(aDoc, UField(aUpdate)) =
         Num(IF UOp(aUpdate) = "$min" THEN (IF v < c THEN v ELSE c) ELSE (IF v > c THEN v ELSE c))

\* ------------------------------------------------------ the collection file
\* what readJSON returns after writeJSON(collectionPath, ds)
WriteJSON(ds) == [i \in 1..Len(ds) |-> JsonDoc(ds[i])]

\* docs.findIndex(doc => this._matchQuery(doc, conditions)), 0 when none
FirstOf(found) == IF found = {} THEN 0 ELSE CHOOSE i \in found : \A j \in found : i <= j
findIndex(ds, conditions) == FirstOf({i \in 1..Len(ds) : _matchQuery(ds[i], conditions) = "T"})

\* new ObjectId().toString()
ObjectIdString(n) == Str(NatToChars(n))

\* --------------------------------------------- inputs of the collection runs
CreateData == {[score |-> Num(0)], [score |-> Num(1)]}
Conditions == {Filter1("score", Num(0)), Filter1("_id", ObjectIdString(2))}
ManyConditions == {Obj(<< >>), Filter1("score", Filter1("$gte", Num(1)))}
SetOnInsertTotal == Update1("$setOnInsert", "total", Num(1))
\* [update, options] of the update calls
UpdateCalls ==
  {<< u, NoOptions >> :
     u \in {Update1("$inc", "score", Num(1)), Update1("$set", "_id", ObjectIdString(1)),
            Update1("$unset", "_id", Num(1)), Obj(<< >>)}}
  \cup {<< SetOnInsertTotal, Upsert(FALSE) >>}
\* the operations of a bulkWrite call
BulkOps ==
  {[kind |-> "insertOne", document |-> [score |-> Num(0)]],
   [kind |-> "insertOne", document |-> [_id |-> ObjectIdString(1), score |-> Num(0)]],
   [kind |-> "deleteOne", filter |-> Filter1("score", Num(0))]}
  \cup {[kind |-> "updateOne", filter |-> Filter1("score", Num(0)), update |-> u, upsert |-> b] :
          u \in {Obj(<< Entry("score", Num(1)) >>), Obj(<< Entry("_id", ObjectIdString(1)) >>)},
          b \in BOOLEAN}

\* the bounds on the values a run may reach
RECURSIVE ValueBounded(_)
ValueBounded(x) ==
  CASE x.t = "number" -> x.v \in (0 - MaxNum)..MaxNum
    [] x.t = "array" -> Len(x.v) <= 2 /\ \A i \in 1..Len(x.v) : ValueBounded(x.v[i])
    [] OTHER -> TRUE
DocBounded(doc) ==
  /\ \A f \in (DOMAIN doc) \ {"__v"} : ValueBounded(doc[f])
  /\ Get(doc, "__v").t = "number" => Get(doc, "__v").v <= MaxCalls
Bounded(ds) == Len(ds) <= MaxDocs /\ \A i \in 1..Len(ds) : DocBounded(ds[i])

\* ------------------------------------------------ collection specification
Init ==
  /\ docs = << >>
  /\ now = 0
  /\ versioning \in BOOLEAN
  /\ nextId = 1
  /\ given = << >>
  /\ MatchIdle /\ ApplyIdle /\ AggIdle /\ SchemaIdle /\ RestIdle

\* time passes
Tick ==
  /\ now < MaxTime
  /\ now' = now + 1
  /\ UNCHANGED << docs, versioning, nextId, given, matchVars, applyVars, aggVars, schemaVars, restVars >>

\* await writeJSON(this.collectionPath, written): the collection becomes
\* what the file holds
Write(written) ==
  /\ Bounded(written)
  /\ docs' = written
  /\ UNCHANGED << now, versioning, matchVars, applyVars, aggVars, schemaVars, restVars >>

\* s without its i-th element (docs.splice(i, 1))
RemoveAt(s, i) == SubSeq(s, 1, i - 1) \o SubSeq(s, i + 1, Len(s))

\* await Model.create(data) with one document: Model._createOne(data)
create(data) ==
  LET newDoc == Put(Put(Put(Put(data, "_id", IF "_id" \in DOMAIN data THEN data["_id"] ELSE ObjectIdString(nextId)),
                            "createdAt", DateAt(now)), "updatedAt", DateAt(now)), "__v", Num(0))
  IN /\ nextId <= MaxDocs
     /\ Write(WriteJSON(Append(docs, newDoc)))
     /\ nextId' = nextId + 1
     /\ given' = Append(given, newDoc["_id"])

\* the branch of updateOne taken for the index findIndex returned
UpdateAt(index, update, options) ==
  /\ index # 0
  /\ Write(WriteJSON([docs EXCEPT ![index] = _applyUpdateOperators(docs[index], update, options, versioning, now)]))
  /\ UNCHANGED << nextId, given >>

\* await Model.updateOne(conditions, update, options)
updateOne(conditions, update, options) ==
  \E index \in {findIndex(docs, conditions)} : UpdateAt(index, update, options)

\* await Model.updateMany(conditions, update, options)
updateMany(conditions, update, options) ==
  /\ Write(WriteJSON([i \in 1..Len(docs) |->
                        IF _matchQuery(docs[i], conditions) = "T"
                        THEN _applyUpdateOperators(docs[i], update, options, versioning, now)
                        ELSE docs[i]]))
  /\ UNCHANGED << nextId, given >>

\* the branch of deleteOne taken for the index findIndex returned
DeleteAt(index) ==
  /\ index # 0
  /\ Write(WriteJSON(RemoveAt(docs, index)))
  /\ given' = RemoveAt(given, index)
  /\ UNCHANGED nextId

\* await Model.deleteOne(conditions)
deleteOne(conditions) == \E index \in {findIndex(docs, conditions)} : DeleteAt(index)

\* await Model.deleteMany(conditions): the documents that do not match stay
KeepAt(keep) ==
  /\ \E i \in 1..Len(docs) : ~keep[i]
  /\ Write(WriteJSON(FilterSeq(docs, keep, 1)))
  /\ given' = FilterSeq(given, keep, 1)
  /\ UNCHANGED nextId
deleteMany(conditions) ==
  \E keep \in {[i \in 1..Len(docs) |-> _matchQuery(docs[i], conditions) # "T"]} : KeepAt(keep)

\* Model.applyDefaults(doc) for a schema whose only default is that of __v
applyDefaults(doc) ==
  IF versioning /\ Get(doc, "__v").t = "undefined" THEN Put(doc, "__v", Num(0)) ELSE doc

\* bulkWrite: the new document of insertOne and of an upserting updateOne
BulkInsert(doc) ==
  /\ nextId <= MaxDocs
  /\ Write(WriteJSON(Append(docs, Put(applyTimestamps(applyDefaults(doc), now), "_id", ObjectIdString(nextId)))))
  /\ given' = Append(given, ObjectIdString(nextId))
  /\ nextId' = nextId + 1
\* bulkWrite: updateOne for the index findIndex returned
BulkUpdateAt(index, op) ==
  IF index # 0
  THEN /\ Write(WriteJSON([docs EXCEPT ![index] = applyTimestamps(Assign(docs[index], op.update.v, 1), now)]))
       /\ UNCHANGED << nextId, given >>
  ELSE /\ op.upsert
       /\ BulkInsert(Assign(Assign(EmptyDoc, op.filter.v, 1), op.update.v, 1))
\* await Model.bulkWrite([op])
bulkWrite(op) ==
  IF op.kind = "insertOne" THEN BulkInsert(op.document)
  ELSE \E index \in {findIndex(docs, op.filter)} :
         IF op.kind = "updateOne" THEN BulkUpdateAt(index, op) ELSE DeleteAt(index)

Next ==
  \/ Tick
  \/ \E data \in CreateData : create(data)
  \/ \E c \in Conditions, uo \in UpdateCalls : updateOne(c, uo[1], uo[2])
  \/ \E c \in ManyConditions, uo \in UpdateCalls : updateMany(c, uo[1], uo[2])
  \/ \E c \in Conditions : deleteOne(c)
  \/ \E c \in ManyConditions : deleteMany(c)
  \/ \E op \in BulkOps : bulkWrite(op)
Spec == Init /\ [][Next]_vars

\* C9: every call of _applyUpdateOperators ends by raising the document's
\* __v by exactly 1 (a missing __v counting as 0) when versioning is
\* enabled, leaves __v as the operators left it when versionKey is false,
\* and sets updatedAt to the current time; n successive calls of an update
\* that does not name __v raise __v by n.
NamesVersion(u) == IsUpdate1(u) /\ UField(u) = "__v"
\* the __v the update's operators leave behind: $set and $unset name it here
VersionAfterOperators(doc, u) ==
  IF NamesVersion(u) /\ UOp(u) = "$unset" THEN Undefined
  ELSE IF NamesVersion(u) /\ UOp(u) = "$set" THEN UOperand(u)
  ELSE Get(doc, "__v")
C9_VersionBump ==
  [][aCalls' = aCalls + 1 =>
      LET base == VersionAfterOperators(aIn', aUpdate)
      IN /\ aVersioning => Get(aDoc', "__v") = Num(ValueOr0(base) + 1)
         /\ ~aVersioning => Get(aDoc', "__v") = base
         /\ Get(aDoc', "updatedAt") = DateAt(aClock)
         /\ (aVersioning /\ ~NamesVersion(aUpdate)) =>
              Get(aDoc', "__v") = Num(ValueOr0(Get(aFirst, "__v")) + aCalls')]_vars
C9_Witness ==
  /\ aVersioning /\ aCalls = 2
  /\ aUpdate = Obj(<< >>)
  /\ "__v" \notin DOMAIN aFirst
  /\ aDoc["__v"] = Num(2)
  /\ aDoc.updatedAt = DateAt(2)

\* C10: the fields of a $setOnInsert operand are merged into the document
\* only when options.upsert is true; with upsert absent or false the
\* operator changes none of the document's fields.
Stamps == {"__v", "createdAt", "updatedAt"}
SameFields(before, after, fields) ==
  \A f \in fields : (f \in DOMAIN before) = (f \in DOMAIN after) /\ Get(before, f) = Get(after, f)
C10_SetOnInsert ==
  (aCalls > 0 /\ Len(aUpdate.v) = 1 /\ aUpdate.v[1].k = "$setOnInsert") =>
    LET operand == aUpdate.v[1].val.v
        named == {operand[i].k : i \in 1..Len(operand)}
        others == (((DOMAIN aIn) \cup (DOMAIN aDoc)) \ Stamps)
    IN IF aOptions = Upsert(TRUE)
       THEN /\ \A i \in 1..Len(operand) : Get(aDoc, operand[i].k) = operand[i].val
            /\ SameFields(aIn, aDoc, others \ named)
       ELSE SameFields(aIn, aDoc, others)
C10_Witness ==
  /\ aCalls = 1 /\ aOptions = Upsert(FALSE)
  /\ aUpdate = Update1("$setOnInsert", "score", Num(MaxNum))
  /\ Get(aIn, "score") = Num(0) /\ Get(aDoc, "score") = Num(0)
\* C11: after any sequence of create, updateOne, updateMany, bulkWrite,
\* deleteOne and deleteMany, every stored document has an _id, the _id values
\* of the stored documents are pairwise distinct, and each stored _id is the
\* one the document was given at creation.
C11_IdUnique ==
  /\ \A i \in 1..Len(docs) : "_id" \in DOMAIN docs[i]
  /\ \A i, j \in 1..Len(docs) : i # j => Get(docs[i], "_id") # Get(docs[j], "_id")
  /\ \A i \in 1..Len(docs) : Get(docs[i], "_id") = given[i]

\* ------------------------------------------------- Aggregate (part_002)
\* the outcome of a stage or of exec: the new value of docs, or an exception
Ok(ds) == [ok |-> TRUE, docs |-> ds]
Raised == [ok |-> FALSE, docs |-> << >>]

\* Array.prototype.slice(start, end) with integer arguments
slice_Tail(a, start, end) ==
  LET rel(k) == IF k < 0 THEN (IF Len(a) + k < 0 THEN 0 ELSE Len(a) + k)
                ELSE (IF k > Len(a) THEN Len(a) ELSE k)
  IN SubSeq(a, Len(a) - rel(end) + 1, Len(a))
slice(a, start, end) ==
  LET rel(k) == IF k < 0 THEN (IF Len(a) + k < 0 THEN 0 ELSE Len(a) + k)
                ELSE (IF k > Len(a) THEN Len(a) ELSE k)
  IN SubSeq(a, rel(start) + 1, rel(end))

\* docs.filter(doc => this.model._matchQuery(doc, operation))
MatchStage(ds, operation) ==
  LET r == [i \in 1..Len(ds) |-> _matchQuery(ds[i], operation)]
  IN IF \E i \in 1..Len(ds) : r[i] = "R" THEN Raised
     ELSE Ok(FilterSeq(ds, [i \in 1..Len(ds) |-> r[i] = "T"], 1))

\* path.split('.') from position i on, part being the characters read so far
RECURSIVE split(_, _, _)
split(s, i, part) ==
  IF i > Len(s) THEN << part >>
  ELSE IF s[i] = "." THEN << part >> \o split(s, i + 1, << >>)
  ELSE split(s, i + 1, Append(part, s[i]))

\* _getFieldValue below the document: value is what the parts before i gave
RECURSIVE getFieldFrom(_, _, _)
getFieldFrom(value, parts, i) ==
  IF i > Len(parts) THEN value
  ELSE IF value.t \in {"undefined", "null"} THEN Null
  ELSE IF value.t = "array"
    THEN Arr([j \in 1..Len(value.v) |-> getFieldFrom(value.v[j], << parts[i] >>, 1)])
  ELSE getFieldFrom(Prop(value, KeyOf(parts[i])), parts, i + 1)
\* _getFieldValue(doc, path) for a document and a path that is not empty
_getFieldValue(doc, path) ==
  LET parts == split(path, 1, << >>)
  IN getFieldFrom(Get(doc, KeyOf(parts[1])), parts, 2)

\* obj with obj[key] = value
SetProp(obj, key, value) ==
  IF \E i \in 1..Len(obj.v) : obj.v[i].k = key
  THEN Obj([i \in 1..Len(obj.v) |-> IF obj.v[i].k = key THEN Entry(key, value) ELSE obj.v[i]])
  ELSE Obj(Append(obj.v, Entry(key, value)))
\* the object value after target[last] = value, target being reached from it
\* by the parts from i on
RECURSIVE setFieldFrom(_, _, _, _)
setFieldFrom(obj, parts, i, value) ==
  IF obj.t # "object" THEN obj
  ELSE IF i = Len(parts) THEN SetProp(obj, KeyOf(parts[i]), value)
  ELSE SetProp(obj, KeyOf(parts[i]), setFieldFrom(Prop(obj, KeyOf(parts[i])), parts, i + 1, value))
\* the document as seen after _setFieldValue(doc, path, value)
_setFieldValue(doc, path, value) ==
  LET parts == split(path, 1, << >>)
      first == KeyOf(parts[1])
  IN IF Len(parts) = 1 THEN Put(doc, first, value)
     ELSE Put(doc, first, setFieldFrom(Get(doc, first), parts, 2, value))

\* _unwind for one document.  newDoc = {...doc} copies the top-level
\* properties only: with a dotted path every copy and doc itself hold the
\* same nested object, _setFieldValue writes into that one object, and after
\* the loop all the copies show the item written last; with a top-level path
\* the write goes to the copy's own property.
UnwindDoc(doc, fieldPath) ==
  LET array == _getFieldValue(doc, fieldPath)
      nested == \E i \in 1..Len(fieldPath) : fieldPath[i] = "."
  IN IF array.t # "array" THEN << doc >>
     ELSE [i \in 1..Len(array.v) |->
             _setFieldValue(doc, fieldPath, array.v[IF nested THEN Len(array.v) ELSE i])]
RECURSIVE UnwindFrom(_, _, _)
UnwindFrom(ds, fieldPath, i) ==
  IF i > Len(ds) THEN << >> ELSE UnwindDoc(ds[i], fieldPath) \o UnwindFrom(ds, fieldPath, i + 1)
\* _unwind(docs, path): a path that is not a string has no startsWith
_unwind(ds, path) ==
  IF path.t # "string" THEN Raised
  ELSE Ok(UnwindFrom(ds, IF Len(path.v) > 0 /\ path.v[1] = "$" THEN Tail(path.v) ELSE path.v, 1))

\* _evaluateExpression(expr, doc), for a field reference whose path is not
\* empty.  Thrown: the evaluation raised (a property read on null, a missing
\* reduce / every / some on an operand that is no array).
RECURSIVE _evaluateExpression(_, _)
\* operand[i] of $eq / $gt (i from 0)
ItemAt(operand, i) ==
  IF operand.t = "array" /\ i < Len(operand.v) THEN operand.v[i + 1]
  ELSE IF operand.t = "string" /\ i < Len(operand.v) THEN Str(<< operand.v[i + 1] >>)
  ELSE Undefined
\* items.reduce((acc, val) => acc + / * this._evaluateExpression(val, doc), acc)
RECURSIVE reduceExpressions(_, _, _, _, _)
reduceExpressions(operator, items, i, acc, doc) ==
  IF i > Len(items) THEN acc
  ELSE LET x == _evaluateExpression(items[i], doc)
       IN IF x.t = "thrown" THEN x
          ELSE reduceExpressions(operator, items, i + 1,
                                 IF operator = "$multiply" THEN JsMul(acc, x) ELSE JsAdd(acc, x), doc)
\* array.reduce((a, b) => a + (b || 0), 0)
RECURSIVE reduceSum(_, _, _)
reduceSum(items, i, acc) ==
  IF i > Len(items) THEN acc ELSE reduceSum(items, i + 1, JsAdd(acc, OrElse(items[i], Num(0))))
\* items.every(...) for stop = FALSE, items.some(...) for stop = TRUE
RECURSIVE everySome(_, _, _, _)
everySome(stop, items, i, doc) ==
  IF i > Len(items) THEN Bool(~stop)
  ELSE LET x == _evaluateExpression(items[i], doc)
       IN IF x.t = "thrown" THEN x
          ELSE IF Truthy(x) = stop THEN Bool(stop)
          ELSE everySome(stop, items, i + 1, doc)
\* the operators in the order of the if statements of typeof expr ===
\* 'object', and the index of the first one whose test expr.<operator> is
\* truthy (0: none)
OperatorOrder == << "$size", "$sum", "$add", "$multiply", "$eq", "$gt", "$and", "$or", "$year" >>
RECURSIVE firstOperator(_, _)
firstOperator(expr, i) ==
  IF i > Len(OperatorOrder) THEN 0
  ELSE IF Truthy(Prop(expr, OperatorOrder[i])) THEN i ELSE firstOperator(expr, i + 1)
\* what an operator makes of the value(s) its operand evaluated to
SizeOf(array) == IF array.t = "thrown" THEN array ELSE IF array.t = "array" THEN Num(Len(array.v)) ELSE Num(0)
SumOf(array) == IF array.t = "thrown" THEN array ELSE IF array.t = "array" THEN reduceSum(array.v, 1, Num(0)) ELSE Num(0)
Compare(operator, a, b) ==
  IF a.t = "thrown" THEN a ELSE IF b.t = "thrown" THEN b
  ELSE Bool(IF operator = "$eq" THEN StrictEquals(a, b) ELSE JsLess(b, a))
YearOf(date) == IF date.t = "thrown" THEN date ELSE [t |-> "year", v |-> date]
\* the body of the if statement of one operator, operand being expr.<operator>
EvaluateOperator(operator, operand, doc) ==
  CASE operator = "$size" -> SizeOf(_evaluateExpression(operand, doc))
    [] operator = "$sum" /\ operand.t = "array" -> reduceExpressions(operator, operand.v, 1, Num(0), doc)
    [] operator = "$sum" /\ operand.t # "array" -> SumOf(_evaluateExpression(operand, doc))
    [] operator \in {"$add", "$multiply", "$and", "$or"} /\ operand.t # "array" -> Thrown
    [] operator = "$add" /\ operand.t = "array" -> reduceExpressions(operator, operand.v, 1, Num(0), doc)
    [] operator = "$multiply" /\ operand.t = "array" -> reduceExpressions(operator, operand.v, 1, Num(1), doc)
    [] operator \in {"$eq", "$gt"} ->
         Compare(operator, _evaluateExpression(ItemAt(operand, 0), doc),
                 _evaluateExpression(ItemAt(operand, 1), doc))
    [] operator \in {"$and", "$or"} /\ operand.t = "array" -> everySome(operator = "$or", operand.v, 1, doc)
    [] operator = "$year" -> YearOf(_evaluateExpression(operand, doc))
EvaluateAt(expr, index, doc) ==
  IF index = 0 THEN expr
  ELSE EvaluateOperator(OperatorOrder[index], Prop(expr, OperatorOrder[index]), doc)
_evaluateExpression(expr, doc) ==
  IF expr.t = "string" /\ Len(expr.v) > 0 /\ expr.v[1] = "$"
  THEN _getFieldValue(doc, Tail(expr.v))
  ELSE IF expr.t = "null" THEN Thrown
  ELSE IF expr.t = "object" THEN EvaluateAt(expr, firstOperator(expr, 1), doc)
  ELSE expr

\* sum / count for a number sum and count > 0; a quotient that is not an
\* integer is kept as the fraction p/q in lowest terms, tagged "ratio"
JsDiv(sum, count) ==
  IF sum.t # "number" THEN sum
  ELSE IF sum.v % count = 0 THEN Num(sum.v \div count)
  ELSE LET d == CHOOSE c \in 1..count :
                  /\ sum.v % c = 0 /\ count % c = 0
                  /\ \A e \in 1..count : (sum.v % e = 0 /\ count % e = 0) => e <= c
       IN [t |-> "ratio", v |-> << sum.v \div d, count \div d >>]

_initializeAccumulator(accumulator) ==
  LET operator == accumulator.v[1].k
  IN CASE operator = "$sum" -> Num(0)
       [] operator = "$avg" -> Obj(<< Entry("sum", Num(0)), Entry("count", Num(0)) >>)
       [] operator = "$min" -> PosInfinity
       [] operator = "$max" -> NegInfinity
       [] operator = "$push" -> Arr(<< >>)
       [] OTHER -> Null

\* the switch of _updateAccumulator: group[field] for the operator and the
\* value of its expression, cur being group[field] before
AccumulatorAfter(cur, operator, value) ==
  CASE operator = "$sum" -> JsAdd(cur, value)
    [] operator = "$avg" ->
         LET sum == JsAdd(Prop(cur, "sum"), value)
             count == Prop(cur, "count").v + 1
         IN SetProp(SetProp(SetProp(cur, "sum", sum), "count", Num(count)),
                    "value", JsDiv(sum, count))
    [] operator = "$min" -> MathMin(cur, value)
    [] operator = "$max" -> MathMax(cur, value)
    [] operator = "$push" -> Arr(Append(cur.v, value))
    [] operator = "$first" -> IF cur.t = "null" THEN value ELSE cur
    [] operator = "$last" -> value
    [] OTHER -> cur
\* group[field] after _updateAccumulator(group, field, spec, doc), cur being
\* group[field] before
_updateAccumulator(cur, spec, doc) ==
  AccumulatorAfter(cur, spec.v[1].k, _evaluateExpression(spec.v[1].val, doc))

\* the key of doc's group, for grouping._id null or not an object
GroupKey(grouping, doc) ==
  LET id == Prop(grouping, "_id")
  IN IF id.t = "null" THEN Str(<< "n", "u", "l", "l" >>) ELSE _evaluateExpression(id, doc)

\* the loop over grouping's entries, on the accumulators of one group
RECURSIVE UpdateGroup(_, _, _, _)
UpdateGroup(group, es, i, doc) ==
  IF i > Len(es) THEN group
  ELSE IF es[i].k = "_id" THEN UpdateGroup(group, es, i + 1, doc)
  ELSE UpdateGroup(
         Put(group, es[i].k,
             _updateAccumulator(IF es[i].k \in DOMAIN group THEN group[es[i].k]
                                ELSE _initializeAccumulator(es[i].val), es[i].val, doc)),
         es, i + 1, doc)

\* _group's loop over docs: keys holds the Map's keys in insertion order and
\* groups the Map's values; then the documents built from the Map's entries
RECURSIVE groupFrom(_, _, _, _, _)
groupFrom(ds, grouping, i, keys, groups) ==
  IF i > Len(ds)
  THEN [j \in 1..Len(keys) |->
          Put(groups[j], "_id", IF keys[j] = Str(<< "n", "u", "l", "l" >>) THEN Null ELSE keys[j])]
  ELSE LET key == GroupKey(grouping, ds[i])
           at == FirstOf({j \in 1..Len(keys) : keys[j] = key})
       IN IF at = 0
          THEN groupFrom(ds, grouping, i + 1, Append(keys, key),
                         Append(groups, UpdateGroup(EmptyDoc, grouping.v, 1, ds[i])))
          ELSE groupFrom(ds, grouping, i + 1, keys,
                         [groups EXCEPT ![at] = UpdateGroup(groups[at], grouping.v, 1, ds[i])])
_group(ds, grouping) == groupFrom(ds, grouping, 1, << >>, << >>)

\* this.model._getCollection(from): the parsed file, [] when it cannot be read
_getCollection(file) == IF file.exists THEN file.docs ELSE << >>

\* _lookup(docs, operation); a foreign document is the object JSON.parse gave
_lookup(ds, operation) ==
  LET foreignDocs == _getCollection(foreign)
      localField == Prop(operation, "localField").v
      foreignField == split(Prop(operation, "foreignField").v, 1, << >>)
      as == KeyOf(Prop(operation, "as").v)
      matches(doc) ==
        FilterSeq(foreignDocs,
                  [j \in 1..Len(foreignDocs) |->
                     JsString(getFieldFrom(foreignDocs[j], foreignField, 1))
                       = JsString(_getFieldValue(doc, localField))], 1)
  IN [i \in 1..Len(ds) |-> Put(ds[i], as, Arr(matches(ds[i])))]

\* the depth of recursion at which the engine's call stack is exhausted and
\* a RangeError is raised
StackLimit == 6

\* buildConnections, called with valueToMatch = _getFieldValue(doc, startWith),
\* as the frames-th nested call.  visitedDocs is only ever tested, cleared
\* and deleted from, never added to: visitedDocs.has(docKey) is false.
RECURSIVE buildConnections(_, _, _, _)
RECURSIVE connectionsFrom(_, _, _, _, _)
buildConnections(valueToMatch, options, currentDepth, frames) ==
  IF frames > StackLimit THEN Raised
  ELSE IF Prop(options, "maxDepth").t = "number" /\ currentDepth > Prop(options, "maxDepth").v
  THEN Ok(<< >>)
  ELSE connectionsFrom(valueToMatch, options, currentDepth, frames, 1)
\* the filter and map over the foreign documents from the j-th on
connectionsFrom(valueToMatch, options, currentDepth, frames, j) ==
  LET foreignDocs == _getCollection(foreign)
      connectedDoc == foreignDocs[j]
      path(name) == split(Prop(options, name).v, 1, << >>)
  IN IF j > Len(foreignDocs) THEN Ok(<< >>)
     ELSE IF /\ getFieldFrom(connectedDoc, path("connectFromField"), 1) = valueToMatch
             /\ StrictEquals(getFieldFrom(connectedDoc, path("connectToField"), 1), valueToMatch)
     THEN LET below == buildConnections(getFieldFrom(connectedDoc, path("startWith"), 1),
                                        options, currentDepth + 1, frames + 1)
              rest == connectionsFrom(valueToMatch, options, currentDepth, frames, j + 1)
              withDepth == IF Truthy(Prop(options, "depthField"))
                           THEN SetProp(connectedDoc, KeyOf(Prop(options, "depthField").v), Num(currentDepth))
                           ELSE connectedDoc
          IN IF below.ok /\ rest.ok
             THEN Ok(<< SetProp(withDepth, KeyOf(Prop(options, "as").v), Arr(below.docs)) >> \o rest.docs)
             ELSE Raised
     ELSE connectionsFrom(valueToMatch, options, currentDepth, frames, j + 1)

\* _graphLookup(docs, options)
_graphLookup(ds, options) ==
  LET required == << "from", "startWith", "connectFromField", "connectToField", "as" >>
      built == [i \in 1..Len(ds) |->
                  buildConnections(_getFieldValue(ds[i], Prop(options, "startWith").v), options, 0, 1)]
  IN IF options.t # "object" \/ \E i \in 1..Len(required) : ~Truthy(Prop(options, required[i]))
     THEN Raised
     ELSE IF \E i \in 1..Len(ds) : ~built[i].ok THEN Raised
     ELSE Ok([i \in 1..Len(ds) |-> Put(ds[i], KeyOf(Prop(options, "as").v), Arr(built[i].docs))])

\* _validatePipeline: the first key of every stage is one of validStages
validStages ==
  {"$match", "$group", "$sort", "$limit", "$skip", "$unwind", "$project", "$lookup",
   "$addFields", "$densify", "$facet", "$graphLookup", "$unionWith", "$sortByCount"}
_validatePipeline(p) ==
  \A i \in 1..Len(p) : Len(p[i].v) > 0 /\ p[i].v[1].k \in validStages

\* a promise and what it is settled with: a value, or a rejection
Promise(value) == [t |-> "promise", v |-> value]
Rejected == [t |-> "rejected", v |-> 0]

\* _applyStageSync(docs, stage) for the stages $lookup and those without a
\* case of their own; it is an async function: the caller receives a
\* promise, and a promise returned from its body is adopted
_applyStageSync(value, stage) ==
  LET operator == stage.v[1].k
      operation == stage.v[1].val
  IN IF operator = "$lookup"
     THEN (IF value.t = "array" THEN Promise(Arr(_lookup(value.v, operation))) ELSE Promise(Rejected))
     ELSE (IF value.t = "promise" THEN value ELSE Promise(value))

\* _executePipelineSync(docs, pipeline): result after the stages from i on
RECURSIVE _executePipelineSync(_, _, _)
_executePipelineSync(value, p, i) ==
  IF i > Len(p) THEN value ELSE _executePipelineSync(_applyStageSync(value, p[i]), p, i + 1)

\* _facet(docs, facets): the result object as a document, or the exception
\* of new Aggregate(this.model, pipeline)
_facet(ds, facets) ==
  IF \E i \in 1..Len(facets.v) : ~_validatePipeline(facets.v[i].val.v) THEN Raised
  ELSE Ok(<< [name \in {facets.v[i].k : i \in 1..Len(facets.v)} |->
               _executePipelineSync(Arr(ds), Prop(facets, name).v, 1)] >>)

\* one iteration of exec's loop: the switch on the stage's first key, for the
\* stages above and a $densify whose options lack range or field (_densify
\* throws); a key with no case leaves docs as it is
ApplyStage(ds, stage) ==
  LET operator == stage.v[1].k
      operation == stage.v[1].val
  IN CASE operator = "$match" -> MatchStage(ds, operation)
       [] operator = "$limit" -> Ok(slice(ds, 0, operation.v))
       [] operator = "$skip" -> Ok(slice(ds, operation.v, Len(ds)))
       [] operator = "$unwind" -> _unwind(ds, operation)
       [] operator = "$group" -> Ok(_group(ds, operation))
       [] operator = "$lookup" -> Ok(_lookup(ds, operation))
       [] operator = "$graphLookup" -> _graphLookup(ds, operation)
       [] operator = "$facet" -> _facet(ds, operation)
       [] operator = "$densify" /\ (~Truthy(Prop(operation, "range")) \/ ~Truthy(Prop(operation, "field")))
            -> Raised
       [] operator \notin validStages \cup {"$merge", "$out"} -> Ok(ds)

\* for (const stage of this.pipeline), from the i-th stage of p on: an
\* exception ends the loop
RECURSIVE execFrom(_, _, _)
execFrom(out, p, i) ==
  IF ~out.ok \/ i > Len(p) THEN out
  ELSE execFrom(ApplyStage(out.docs, p[i]), p, i + 1)

\* ------------------------------------------ inputs of the aggregation runs
MaxFound == 3
AggDocs ==
  {[_id |-> ObjectIdString(1), score |-> Num(0)],
   [_id |-> ObjectIdString(2), score |-> Num(1)],
   [_id |-> ObjectIdString(3), score |-> Num(2), total |-> Num(1)],
   [_id |-> ObjectIdString(4), tags |-> Arr(<< Str(<< "a" >>), Str(<< "b" >>) >>)],
   [_id |-> ObjectIdString(5), tags |-> Arr(<< >>)],
   [_id |-> ObjectIdString(6),
    meta |-> Obj(<< Entry("tags", Arr(<< Str(<< "a" >>), Str(<< "b" >>) >>)) >>)]}
AggFilters == {Obj(<< >>), Filter1("score", Num(1)), Filter1("score", Filter1("$gte", Num(1)))}
MatchLimit == {<< Filter1("$match", f), Filter1("$limit", Num(n)) >> : f \in AggFilters, n \in 0..MaxFound}
UnwindPaths ==
  {Str(<< "$", "t", "a", "g", "s" >>), Str(<< "t", "a", "g", "s" >>),
   Str(<< "$", "s", "c", "o", "r", "e" >>),
   Str(<< "$", "m", "e", "t", "a", ".", "t", "a", "g", "s" >>)}
Unwinds == {<< Filter1("$unwind", path) >> : path \in UnwindPaths}
GroupIds == {Null, Str(<< "$", "s", "c", "o", "r", "e" >>)}
Groups ==
  {<< Filter1("$group", Filter2("_id", id, "mean", Filter1(op, Str(<< "$", "s", "c", "o", "r", "e" >>)))) >> :
     id \in GroupIds, op \in {"$avg", "$sum"}}
Lookups ==
  {<< Filter1("$lookup",
        Obj(<< Entry("from", Str(<< "o", "t", "h", "e", "r", "s" >>)),
               Entry("localField", Str(KeyChars["score"])),
               Entry("foreignField", Str(KeyChars["score"])),
               Entry("as", Str(KeyChars["total"])) >>)) >>}
MaxDepths == {Undefined, Num(0), Num(1)}
GraphLookups ==
  {<< Filter1("$graphLookup",
        Obj(<< Entry("from", Str(<< "o", "t", "h", "e", "r", "s" >>)),
               Entry("startWith", Str(KeyChars["total"])),
               Entry("connectFromField", Str(KeyChars["score"])),
               Entry("connectToField", Str(KeyChars["score"])),
               Entry("as", Str(KeyChars["meta"])),
               Entry("maxDepth", m) >>)) >> : m \in MaxDepths}
SubPipelines ==
  {<< >>, << Filter1("$match", Filter1("score", Num(1))) >>,
   << Filter1("$match", Filter1("score", Filter1("$gte", Num(1)))), Filter1("$limit", Num(1)) >>}
  \cup Lookups
Facets == {<< Filter1("$facet", Filter2("all", Arr(<< >>), "top", Arr(sub))) >> : sub \in SubPipelines}
\* options of $densify without range, and without both
BadDensify == {Filter1("$densify", o) : o \in {Obj(<< >>), Filter1("field", Str(KeyChars["score"]))}}
\* what the builder methods count(), limit(1) and densify(options) push
BuilderStages == {Filter1("$count", Str(<< "c", "o", "u", "n", "t" >>)), Filter1("$limit", Num(1))} \cup BadDensify
Unchecked == {<< >>, << Filter1("$bucket", Obj(<< >>)) >>} \cup {<< stage >> : stage \in BadDensify}
Pipelines ==
  MatchLimit \cup Unwinds \cup Groups \cup Lookups \cup GraphLookups \cup Facets \cup Unchecked
MaxStages == 1

\* the foreign collection file: documents whose score and total make a chain
\* (11 -> 12), a cycle (11 -> 12 -> 11) and a self-loop (14)
MaxForeign == 2
MaxJoin == 2
ForeignDocs ==
  {Obj(<< Entry("_id", ObjectIdString(11)), Entry("score", Num(1)), Entry("total", Num(2)) >>),
   Obj(<< Entry("_id", ObjectIdString(12)), Entry("score", Num(2)), Entry("total", Num(1)) >>),
   Obj(<< Entry("_id", ObjectIdString(13)), Entry("score", Str(<< "1" >>)) >>),
   Obj(<< Entry("_id", ObjectIdString(14)), Entry("score", Num(1)), Entry("total", Num(1)) >>)}
NoFile == [exists |-> FALSE, docs |-> << >>]
\* the collection with the foreign file beside it: any documents without a
\* readable file, and the documents whose score occurs in the foreign
\* documents with a file
JoinDocs == {d \in AggDocs : Get(d, "score") \in {Num(1), Num(2)}}
Files ==
  {<< c, NoFile >> : c \in SeqsUpTo(AggDocs, MaxFound)}
  \cup {<< c, [exists |-> TRUE, docs |-> fs] >> :
          c \in SeqsUpTo(JoinDocs, MaxJoin), fs \in SeqsUpTo(ForeignDocs, MaxForeign)}

\* ---------------------------------------------- aggregation specification
InitAgg ==
  /\ \E f \in Files : collection = f[1] /\ foreign = f[2]
  /\ pipeline = << >> /\ result = << >> /\ status = "idle"
  /\ MatchIdle /\ ApplyIdle /\ CollIdle /\ SchemaIdle /\ RestIdle

\* new Aggregate(model, pipeline)
Aggregate(p) ==
  /\ status = "idle"
  /\ pipeline' = p
  /\ status' = IF _validatePipeline(p) THEN "built" ELSE "invalid"
  /\ UNCHANGED << collection, foreign, result, matchVars, applyVars, collVars, schemaVars, restVars >>

\* a builder method (match, limit, count, densify, ...): this.pipeline.push(stage)
push(stage) ==
  /\ status = "built" /\ Len(pipeline) < MaxStages
  /\ pipeline' = Append(pipeline, stage)
  /\ UNCHANGED << collection, foreign, result, status, matchVars, applyVars, collVars, schemaVars, restVars >>

\* await aggregate.exec()
exec ==
  /\ status = "built"
  /\ \E out \in {execFrom(Ok(collection), pipeline, 1)} :
       /\ result' = out.docs
       /\ status' = IF out.ok THEN "done" ELSE "raised"
  /\ UNCHANGED << pipeline, collection, foreign, matchVars, applyVars, collVars, schemaVars, restVars >>

NextAgg ==
  \/ \E p \in Pipelines : Aggregate(p)
  \/ \E stage \in BuilderStages : push(stage)
  \/ exec
SpecAgg == InitAgg /\ [][NextAgg]_vars

\* --------------------------------------------------------------- claims
\* the indices of the documents of ds that satisfy filter f, and the j-th
\* smallest of a set of indices
Matching(ds, f) == {i \in 1..Len(ds) : _matchQuery(ds[i], f) = "T"}
Nth(S, j) == CHOOSE i \in S : Cardinality({m \in S : m <= i}) = j

\* C12: exec applies the stages left to right, each to the whole output of
\* the one before: after [{$match: F}, {$limit: n}] the result is exactly the
\* first n documents, in input order, of all the documents that match F.
C12_MatchLimit ==
  (status = "done" /\ pipeline \in MatchLimit) =>
    LET M == Matching(collection, pipeline[1].v[1].val)
        n == pipeline[2].v[1].val.v
    IN /\ Len(result) = (IF n < Cardinality(M) THEN n ELSE Cardinality(M))
       /\ \A j \in 1..Len(result) : result[j] = collection[Nth(M, j)]
\* a run where the limit cuts the matching documents short and a document
\* that does not match precedes one that does
C12_Witness ==
  /\ status = "done" /\ pipeline \in MatchLimit
  /\ LET M == Matching(collection, pipeline[1].v[1].val)
     IN /\ Len(result) = 1 /\ Cardinality(M) = 2
        /\ 1 \notin M /\ Len(collection) = MaxFound

\* the documents $unwind is to emit for doc: one per element of the array at
\* the path, the i-th equal to doc but for the i-th element at the path
Unwound(doc, fieldPath) ==
  LET array == _getFieldValue(doc, fieldPath)
  IN IF array.t # "array" THEN << doc >>
     ELSE [i \in 1..Len(array.v) |-> _setFieldValue(doc, fieldPath, array.v[i])]
RECURSIVE UnwoundFrom(_, _, _)
UnwoundFrom(ds, fieldPath, i) ==
  IF i > Len(ds) THEN << >> ELSE Unwound(ds[i], fieldPath) \o UnwoundFrom(ds, fieldPath, i + 1)

\* C13: $unwind on an array field of k elements, named by a top-level or a
\* dotted path, emits exactly k documents, the i-th equal to the input but
\* for the i-th element in the unwound field (none when k = 0); a document
\* whose field is not an array passes through unchanged as one document.
C13_Unwind ==
  (status = "done" /\ pipeline \in Unwinds) =>
    LET path == pipeline[1].v[1].val.v
    IN result = UnwoundFrom(collection, IF path[1] = "$" THEN Tail(path) ELSE path, 1)

\* the sum of the scores of the documents of ds at the indices in S
RECURSIVE ScoreSum(_, _)
ScoreSum(ds, S) ==
  IF S = {} THEN Num(0)
  ELSE LET i == CHOOSE j \in S : TRUE IN JsAdd(Get(ds[i], "score"), ScoreSum(ds, S \ {i}))

\* C14: $group emits exactly one document per distinct _id key (a null _id
\* puts every document in one group), and a field computed with $avg holds
\* the arithmetic mean of its group as a scalar.
C14_GroupAvg ==
  (status = "done" /\ pipeline \in Groups) =>
    LET grouping == pipeline[1].v[1].val
        keyOf(i) == IF Prop(grouping, "_id").t = "null" THEN Null ELSE Get(collection[i], "score")
        members(g) == {i \in 1..Len(collection) : keyOf(i) = Get(g, "_id")}
    IN /\ Len(result) = Cardinality({keyOf(i) : i \in 1..Len(collection)})
       /\ \A j, k \in 1..Len(result) : j # k => Get(result[j], "_id") # Get(result[k], "_id")
       /\ Prop(grouping, "mean").v[1].k = "$avg" =>
            \A j \in 1..Len(result) :
              Get(result[j], "mean") =
                JsDiv(ScoreSum(collection, members(result[j])), Cardinality(members(result[j])))

\* C15: $lookup is a left outer join: one output per input document, in the
\* same order, each the input with the field `as` holding the array of
\* exactly the foreign documents whose foreignField equals the document's
\* localField, in file order (empty when none does); when the foreign
\* collection cannot be read the array is empty and nothing is raised.
C15_Lookup ==
  (status # "idle" /\ pipeline \in Lookups) =>
    /\ status # "raised"
    /\ status = "done" =>
         /\ Len(result) = Len(collection)
         /\ \A i \in 1..Len(result) :
              LET equal == {j \in 1..Len(foreign.docs) :
                              foreign.exists /\ Prop(foreign.docs[j], "score") = Get(collection[i], "score")}
                  joined == Get(result[i], "total").v
              IN /\ result[i] = Put(collection[i], "total", Arr(joined))
                 /\ Len(joined) = Cardinality(equal)
                 /\ \A j \in 1..Len(joined) : joined[j] = foreign.docs[Nth(equal, j)]

\* the number of levels of the nested connections held under the key as
RECURSIVE Levels(_, _)
Levels(connections, as) ==
  IF Len(connections.v) = 0 THEN 0
  ELSE 1 + Levels(Prop(connections.v[CHOOSE i \in 1..Len(connections.v) :
                         \A j \in 1..Len(connections.v) :
                           Levels(Prop(connections.v[j], as), as) <= Levels(Prop(connections.v[i], as), as)],
                       as), as)

\* C16: $graphLookup ends with a result for every finite foreign collection,
\* cyclic ones (11 -> 12 -> 11, a document that points at itself) included
\* and whether or not maxDepth is given; with maxDepth given the nested
\* result has at most maxDepth + 1 levels.
C16_GraphLookup ==
  (status # "idle" /\ pipeline \in GraphLookups) =>
    /\ status # "raised"
    /\ (status = "done" /\ Prop(pipeline[1].v[1].val, "maxDepth").t = "number") =>
         \A i \in 1..Len(result) :
           Levels(Get(result[i], "meta"), "meta") <= Prop(pipeline[1].v[1].val, "maxDepth").v + 1

\* C17: $facet emits one document with one key per facet name, each key
\* holding the array obtained by running that facet's sub-pipeline on the
\* input, stage after stage, each stage complete before the next.
C17_Facet ==
  (status = "done" /\ pipeline \in Facets) =>
    LET facets == pipeline[1].v[1].val
    IN /\ Len(result) = 1
       /\ DOMAIN result[1] = {facets.v[i].k : i \in 1..Len(facets.v)}
       /\ \A i \in 1..Len(facets.v) :
            result[1][facets.v[i].k] = Arr(execFrom(Ok(collection), facets.v[i].val.v, 1).docs)

\* a stage whose operator is not a pipeline stage, or a $densify without
\* field or range
Malformed(stage) ==
  \/ Len(stage.v) = 0
  \/ stage.v[1].k \notin validStages
  \/ /\ stage.v[1].k = "$densify"
     /\ (~Truthy(Prop(stage.v[1].val, "range")) \/ ~Truthy(Prop(stage.v[1].val, "field")))

\* C18: a pipeline with an unknown or malformed stage, given to the
\* constructor or added by a builder method, is reported as an error when it
\* is built, before exec processes any document: no Aggregate object holds
\* such a pipeline.
C18_FailFast ==
  (\E i \in 1..Len(pipeline) : Malformed(pipeline[i])) => status = "invalid"

\* ------------------------------------------- SchemaType (SchemaType.js)
NoOpts ==
  [set |-> Undefined, enum |-> Undefined, min |-> Undefined, max |-> Undefined,
   trim |-> FALSE, lowercase |-> FALSE, uppercase |-> FALSE, match |-> Undefined]

\* new SchemaType(path, options, instance): the fields cast reads.  The
\* instance is named by a string ("Array" for [String], whose _arrayType is
\* no SchemaType; "Mixed" for a type cast has no case for); a setter is
\* named by what it does.  options.set, trim, lowercase and uppercase add
\* their setters in this order.
SchemaType(options, instance) ==
  [instance |-> instance,
   _isArray |-> instance = "Array",
   _enum |-> IF options.enum.t = "array" THEN options.enum ELSE Null,
   _min |-> IF options.min.t \in {"undefined", "null"} THEN Null ELSE options.min,
   _max |-> IF options.max.t \in {"undefined", "null"} THEN Null ELSE options.max,
   _trim |-> options.trim, _lowercase |-> options.lowercase, _uppercase |-> options.uppercase,
   _match |-> IF Truthy(options.match) THEN options.match ELSE Null,
   setters |-> (IF Truthy(options.set) THEN << options.set.v >> ELSE << >>)
               \o (IF options.trim THEN << "trim" >> ELSE << >>)
               \o (IF options.lowercase THEN << "lowercase" >> ELSE << >>)
               \o (IF options.uppercase THEN << "uppercase" >> ELSE << >>)]

\* setter(value): the setters of trim(), lowercase(), uppercase(), and the
\* user's setter v => v + 1
applySetter(setter, value) ==
  CASE setter = "trim" -> IF value.t = "string" THEN Str(trim(value.v)) ELSE value
    [] setter = "lowercase" -> IF value.t = "string" THEN Str(toLowerCase(value.v)) ELSE value
    [] setter = "uppercase" -> IF value.t = "string" THEN Str(toUpperCase(value.v)) ELSE value
    [] setter = "increment" -> JsAdd(value, Num(1))
RECURSIVE applySetters(_, _, _)
applySetters(setters, i, value) ==
  IF i > Len(setters) THEN value ELSE applySetters(setters, i + 1, applySetter(setters[i], value))

\* the switch on this.instance; a Date is made of a number, a boolean or a Date
CastInstance(st, v) ==
  CASE st.instance = "String" ->
         LET str == JsString(v)
             trimmed == IF st._trim THEN trim(str) ELSE str
             lowered == IF st._lowercase THEN toLowerCase(trimmed) ELSE trimmed
         IN Str(IF st._uppercase THEN toUpperCase(lowered) ELSE lowered)
    [] st.instance = "Number" -> ToNumber(v)
    [] st.instance = "Date" -> IF v.t = "date" THEN v ELSE DateAt(ToNumber(v).v)
    [] st.instance = "Boolean" -> Bool(Truthy(v))
    [] OTHER -> v

\* SchemaType.cast(val); no static setter is registered
cast(st, v) ==
  IF v.t \in {"undefined", "null"} THEN v
  ELSE IF st._isArray THEN (IF v.t = "array" THEN v ELSE Thrown)
  ELSE LET c == CastInstance(st, v)
       IN IF st._enum.t = "array" /\ ~ArrayIncludes(st._enum.v, c) THEN Thrown
          ELSE IF st._min.t # "null" /\ JsLess(c, st._min) THEN Thrown
          ELSE IF st._max.t # "null" /\ JsLess(st._max, c) THEN Thrown
          ELSE IF st._match.t # "null" /\ c.t = "string" /\ ~RegExpTest(st._match.v, << >>, c.v) THEN Thrown
          ELSE applySetters(st.setters, 1, c)

\* ------------------------------------------------- inputs of the cast runs
Instances == {"String", "Number", "Boolean", "Date", "Mixed", "Array"}
CastOptions ==
  {[NoOpts EXCEPT !.trim = t, !.lowercase = l, !.uppercase = u] : t, l, u \in BOOLEAN}
  \cup {[NoOpts EXCEPT !.enum = Arr(<< Str(<< "A", "B" >>), Num(1) >>), !.lowercase = l] : l \in BOOLEAN}
  \cup {[NoOpts EXCEPT !.min = Num(1)], [NoOpts EXCEPT !.max = Num(1)],
        [NoOpts EXCEPT !.match = [t |-> "regexp", v |-> << "A" >>], !.lowercase = TRUE]}
SchemaTypes ==
  {SchemaType(o, i) : o \in CastOptions, i \in Instances}
  \cup {SchemaType([NoOpts EXCEPT !.set = [t |-> "function", v |-> "increment"]], i) : i \in {"Number", "String"}}
CastValues ==
  {Null, Undefined, Num(0), Num(1), Num(MaxNum), Bool(TRUE), DateAt(1),
   Str(<< "A", "B" >>), Str(<< " ", "a" >>), Str(<< "1" >>), Arr(<< Num(1) >>)}

\* ------------------------------------------------------ cast specification
InitCast ==
  /\ schemaType \in SchemaTypes
  /\ val \in CastValues
  /\ schemaType.instance = "Date" => val.t \in {"undefined", "null", "number", "boolean", "date"}
  /\ once = NotCalled /\ twice = NotCalled
  /\ paths = << >> /\ document = EmptyDoc /\ errors = NoErrors
  /\ MatchIdle /\ ApplyIdle /\ CollIdle /\ AggIdle /\ RestIdle

\* schemaType.cast(val)
Cast ==
  /\ once = NotCalled
  /\ once' = cast(schemaType, val)
  /\ UNCHANGED << schemaType, val, twice, paths, document, errors, matchVars, applyVars, collVars, aggVars, restVars >>
\* schemaType.cast(...) of what the first call returned
CastAgain ==
  /\ once \notin {NotCalled, Thrown} /\ twice = NotCalled
  /\ twice' = cast(schemaType, once)
  /\ UNCHANGED << schemaType, val, once, paths, document, errors, matchVars, applyVars, collVars, aggVars, restVars >>
NextCast == Cast \/ CastAgain
SpecCast == InitCast /\ [][NextCast]_vars

\* C19: for every SchemaType and every value v that cast accepts,
\* cast(cast(v)) = cast(v).
C19_CastIdempotent ==
  twice # NotCalled => twice = once

\* ----------------------------------------------------- Schema (Schema.js)
\* An entry of _paths is [path, schemaType, validators]; validators is
\* schemaType.validators, each validator named by what it does: "required"
\* (v => v != null, isRequired), "pass" and "fail" (return true, false),
\* "throws", "asyncPass" and "asyncFail" (return a promise of true, false).
\* An error message is the record of its path and its kind.
MaxValidators == 2
ValidatorKinds == {"pass", "fail", "throws", "asyncPass", "asyncFail"}

\* schemaType.required() without arguments
required(entry) == \E i \in 1..Len(entry.validators) : entry.validators[i] = "required"

\* doValidate(value, fn, context) up to the point where validate goes on:
\* TRUE when fn was called with an error.  The function is async and is not
\* awaited: at the first validator that returns a promise it is suspended,
\* and the rest, the call of fn included, runs after validate has returned.
RECURSIVE doValidate(_, _, _)
doValidate(validators, i, err) ==
  IF i > Len(validators) THEN err
  ELSE IF validators[i] \in {"asyncPass", "asyncFail"} THEN FALSE
  ELSE doValidate(validators, i + 1, err \/ validators[i] \in {"fail", "throws"})

\* the body of validate's loop for one entry of _paths
ValidateEntry(entry, d) ==
  LET value == Get(d, entry.path)
  IN IF required(entry) /\ value.t \in {"undefined", "null"}
     THEN << [path |-> entry.path, kind |-> "required"] >>
     ELSE IF value.t \in {"undefined", "null"} THEN << >>
     ELSE IF cast(entry.schemaType, value) = Thrown
     THEN << [path |-> entry.path, kind |-> "cast"] >>
     ELSE IF doValidate(entry.validators, 1, FALSE)
     THEN << [path |-> entry.path, kind |-> "validator"] >>
     ELSE << >>
RECURSIVE validateFrom(_, _, _)
validateFrom(ps, d, i) ==
  IF i > Len(ps) THEN << >> ELSE ValidateEntry(ps[i], d) \o validateFrom(ps, d, i + 1)

\* --------------------------------------------- inputs of the validate runs
ValidatorLists ==
  {r \o u : r \in {<< >>, << "required" >>}, u \in SeqsUpTo(ValidatorKinds, MaxValidators)}
SchemaPaths ==
  {<< [path |-> "score", schemaType |-> SchemaType(NoOpts, "Number"), validators |-> v1],
      [path |-> "tags", schemaType |-> SchemaType(NoOpts, "Array"), validators |-> v2] >> :
     v1, v2 \in ValidatorLists}
ValidateData ==
  {EmptyDoc, [score |-> Num(1)], [score |-> Null, tags |-> Str(<< "a" >>)],
   [score |-> Num(1), tags |-> Arr(<< Str(<< "a" >>) >>)]}

\* -------------------------------------------------- validate specification
InitValidate ==
  /\ paths \in SchemaPaths
  /\ document \in ValidateData
  /\ errors = NoErrors
  /\ schemaType = << >> /\ val = Undefined /\ once = NotCalled /\ twice = NotCalled
  /\ MatchIdle /\ ApplyIdle /\ CollIdle /\ AggIdle /\ RestIdle

\* schema.validate(data)
validate ==
  /\ ~errors.called
  /\ errors' = [called |-> TRUE, list |-> validateFrom(paths, document, 1)]
  /\ UNCHANGED << schemaType, val, once, twice, paths, document, matchVars, applyVars, collVars, aggVars, restVars >>
SpecValidate == InitValidate /\ [][validate]_vars

\* the field of an entry violates its schema: it is required and missing,
\* or present and not castable, or present and failed by a validator
Missing(entry) == required(entry) /\ Get(document, entry.path).t \in {"undefined", "null"}
Violates(entry) ==
  \/ Missing(entry)
  \/ /\ Get(document, entry.path).t \notin {"undefined", "null"}
     /\ \/ cast(entry.schemaType, Get(document, entry.path)) = Thrown
        \/ \E i \in 1..Len(entry.validators) : entry.validators[i] \in {"fail", "throws", "asyncFail"}

\* C20: validate(data) returns a list with one error entry for every field
\* that violates its schema (a required field that is missing, a failed
\* cast, a failing validator, asynchronous ones included) and none for a
\* field that satisfies it; the entry of a missing required field is the
\* required-field message.
C20_Validate ==
  errors.called =>
    \A i \in 1..Len(paths) :
      LET mine == {j \in 1..Len(errors.list) : errors.list[j].path = paths[i].path}
      IN /\ Cardinality(mine) = (IF Violates(paths[i]) THEN 1 ELSE 0)
         /\ Missing(paths[i]) => \A j \in mine : errors.list[j].kind = "required"

\* ------------------------------------------ Model.create(array of documents)
MaxItems == 3
\* the arrays given to create
RECURSIVE ArraysOf(_, _)
ArraysOf(S, n) == IF n = 0 THEN {<< >>} ELSE {Append(a, x) : a \in ArraysOf(S, n - 1), x \in S}
CreateArrays == UNION {ArraysOf(CreateData, n) : n \in 1..MaxItems}
\* the documents stored before the call
StoredBefore ==
  {<< >>,
   << [_id |-> ObjectIdString(1), score |-> Num(2), createdAt |-> DateAt(0), updatedAt |-> DateAt(0), __v |-> Num(0)] >>}

InitCreate ==
  /\ docs \in StoredBefore
  /\ now = 0 /\ versioning = TRUE /\ nextId = 2 /\ given = << >>
  /\ calls = << >> /\ stored = << >>
  /\ CreateAlone

\* Model.create(items): Promise.all(data.map(item => this._createOne(item)));
\* every _createOne runs (no middleware, valid data) up to its readJSON
createArray(items) ==
  /\ calls = << >>
  /\ calls' = [i \in 1..Len(items) |-> [data |-> items[i], at |-> "readJSON", docs |-> << >>, newDoc |-> EmptyDoc]]
  /\ stored' = docs
  /\ UNCHANGED << collVars, createFrame >>

\* _createOne i: const docs = await readJSON(this.collectionPath) returns
\* what the file holds now; newDoc is built and pushed, writeJSON is called
readJSON(i) ==
  /\ calls[i].at = "readJSON"
  /\ LET newDoc == Put(Put(Put(Put(calls[i].data, "_id", IF "_id" \in DOMAIN calls[i].data THEN calls[i].data["_id"] ELSE ObjectIdString(nextId)),
                               "createdAt", DateAt(now)), "updatedAt", DateAt(now)), "__v", Num(0))
     IN calls' = [calls EXCEPT ![i] = [data |-> calls[i].data, at |-> "writeJSON",
                                       docs |-> Append(docs, newDoc), newDoc |-> newDoc]]
  /\ nextId' = nextId + 1
  /\ UNCHANGED << docs, now, versioning, given, stored, createFrame >>

\* _createOne i: await writeJSON(this.collectionPath, docs) replaces the
\* file's contents by the array of this call; the call's promise resolves
writeJSON(i) ==
  /\ calls[i].at = "writeJSON"
  /\ docs' = WriteJSON(calls[i].docs)
  /\ calls' = [calls EXCEPT ![i].at = "done"]
  /\ UNCHANGED << now, versioning, nextId, given, stored, createFrame >>

NextCreate ==
  \/ \E items \in CreateArrays : createArray(items)
  \/ \E i \in 1..Len(calls) : readJSON(i)
  \/ \E i \in 1..Len(calls) : writeJSON(i)
SpecCreate == InitCreate /\ [][NextCreate]_vars

\* the promise create returned has resolved: every _createOne has
Resolved == calls # << >> /\ \A i \in 1..Len(calls) : calls[i].at = "done"
Holds(ds, doc) == \E j \in 1..Len(ds) : ds[j] = doc

\* C21: once the promise of create(array of n valid documents) has resolved,
\* all n new documents and every document stored before are in the stored
\* collection, under every interleaving of the reads and writes of the
\* _createOne calls.
C21_CreateAll ==
  Resolved =>
    /\ \A i \in 1..Len(calls) : Holds(docs, JsonDoc(calls[i].newDoc))
    /\ \A k \in 1..Len(stored) : Holds(docs, stored[k])

\* ------------------------------------------------------------ Document.save
\* the stored collections a Document is obtained from
StoredDoc(n, score) ==
  [_id |-> ObjectIdString(n), score |-> Num(score), createdAt |-> DateAt(0), updatedAt |-> DateAt(0), __v |-> Num(0)]
SavedCollections == {<< StoredDoc(1, 0) >>, << StoredDoc(1, 0), StoredDoc(2, 0) >>}
\* doc.field = value: the fields assigned and the new values
AssignFields == {"score", "total"}
AssignValues == {Num(1), Num(2)}

\* this._doc as the update argument of updateOne: its entries (no key of a
\* document is an operator name, so their order has no effect)
RECURSIVE EntriesOf(_, _)
EntriesOf(doc, keys) ==
  IF keys = {} THEN << >>
  ELSE LET key == CHOOSE f \in keys : TRUE
       IN << Entry(key, doc[key]) >> \o EntriesOf(doc, keys \ {key})
ObjectOf(doc) == Obj(EntriesOf(doc, DOMAIN doc))

InitSave ==
  /\ docs \in SavedCollections
  /\ now = 0 /\ versioning \in BOOLEAN /\ nextId = 3 /\ given = << >>
  /\ SaveIdle
  /\ SaveAlone

\* time passes
SaveTick ==
  /\ now < MaxTime
  /\ now' = now + 1
  /\ UNCHANGED << docs, versioning, nextId, given, saveVars, saveFrame >>

\* new Document(docs[i], schema, model), as findById and Query.exec do:
\* this._doc = { ...obj }
Document(i) ==
  /\ ~obtained
  /\ obtained' = TRUE
  /\ _doc' = docs[i]
  /\ UNCHANGED << assigned, saved, collVars, saveFrame >>

\* doc.field = value: the accessor the constructor defined for each key of
\* _doc writes this._doc[field]; for any other field the assignment makes an
\* own property of the Document object and _doc stays as it is
AssignField(field, value) ==
  /\ obtained
  /\ _doc' = IF field \in DOMAIN _doc THEN Put(_doc, field, value) ELSE _doc
  /\ assigned' = [field |-> field, value |-> value]
  /\ saved' = FALSE
  /\ UNCHANGED << obtained, collVars, saveFrame >>

\* await this._model.updateOne({ _id: this._id }, this._doc) for the index
\* findIndex returned
SaveAt(index, update) ==
  /\ _doc' = update
  /\ docs' = IF index = 0 THEN docs
             ELSE WriteJSON([docs EXCEPT ![index] =
                    _applyUpdateOperators(docs[index], ObjectOf(update), NoOptions, versioning, now)])
  /\ saved' = TRUE
  /\ UNCHANGED << obtained, assigned, now, versioning, nextId, given, saveFrame >>

\* await doc.save(): timestamps (this.isNew stays true), no middleware, no
\* validation error, the version key, then updateOne
save ==
  /\ obtained
  /\ OrElse(Get(_doc, "__v"), Num(0)).v < MaxCalls
  /\ \E update \in {IncrementVersion(Put(Put(_doc, "updatedAt", DateAt(now)), "createdAt", DateAt(now)), versioning)} :
       \E index \in {findIndex(docs, Filter1("_id", Get(_doc, "_id")))} : SaveAt(index, update)

NextSave ==
  \/ SaveTick
  \/ \E i \in 1..Len(docs) : Document(i)
  \/ \E field \in AssignFields, value \in AssignValues : AssignField(field, value)
  \/ save
SpecSave == InitSave /\ [][NextSave]_vars

\* C22: after doc.field = value and a resolved doc.save(), the stored
\* document with the Document's _id holds the value in that field.
C22_SaveStores ==
  (saved /\ assigned # NotAssigned) =>
    \E j \in 1..Len(docs) :
      /\ Get(docs[j], "_id") = Get(_doc, "_id")
      /\ Get(docs[j], assigned.field) = assigned.value

\* ------------------------------------------------ the fold of one $group group
MaxFolded == 3
\* { _id: null, first: { $first: '$score' }, last: { $last: '$score' } }
ScoreRef == Str(<< "$", "s", "c", "o", "r", "e" >>)
FirstLast ==
  Obj(<< Entry("_id", Null), Entry("first", Filter1("$first", ScoreRef)),
         Entry("last", Filter1("$last", ScoreRef)) >>)
\* the documents folded: score null, a number, a string, or no score
FoldDocs ==
  {[_id |-> ObjectIdString(1), score |-> s] : s \in {Null, Num(0), Num(1), Str(<< "a" >>)}}
  \cup {[_id |-> ObjectIdString(1)]}

InitFold ==
  /\ folded = << >> /\ accumulators = EmptyDoc
  /\ FoldAlone

\* one round of _group's loop for a document of the group: the group object
\* is created with _initializeAccumulator when the Map has no entry yet, then
\* _updateAccumulator runs for each output field
fold(doc) ==
  /\ Len(folded) < MaxFolded
  /\ accumulators' = UpdateGroup(accumulators, Entries(FirstLast), 1, doc)
  /\ folded' = Append(folded, doc)
  /\ UNCHANGED foldFrame

SpecFold == InitFold /\ [][\E doc \in FoldDocs : fold(doc)]_vars

\* C23: the $first field of a group holds the value evaluated on the first
\* document folded into it, null included, whatever is folded later; the
\* $last field holds the value evaluated on the latest document folded.
C23_FirstLast ==
  folded # << >> =>
    /\ accumulators["first"] = _evaluateExpression(ScoreRef, folded[1])
    /\ accumulators["last"] = _evaluateExpression(ScoreRef, folded[Len(folded)])

\* ------------------------------- SchemaType: registering validators, doValidate
MaxRegistrations == 3
\* a validator object: what its function does (kind, arg), its type, isRequired
Validator(kind, arg, type) == [kind |-> kind, arg |-> arg, type |-> type, isRequired |-> FALSE]
RequiredValidator == [kind |-> "required", arg |-> Null, type |-> "required", isRequired |-> TRUE]

\* this.validators after required(required) with an argument, inserting the
\* new validator at the end
RequiredValidators_Push(list, flag) ==
  LET others == SelectSeq(list, LAMBDA v : ~v.isRequired)
  IN IF flag THEN Append(others, RequiredValidator) ELSE others
\* this.validators after required(required) with an argument
RequiredValidators(list, flag) ==
  LET others == SelectSeq(list, LAMBDA v : ~v.isRequired)
  IN IF flag THEN << RequiredValidator >> \o others ELSE others

\* this.validators after validate(obj) for the validator _createValidator made
\* of obj: the first validator of the same type is spliced out, the new one
\* is pushed
ValidateValidators(list, validator) ==
  LET existingValidatorIndex == FirstOf({i \in 1..Len(list) : list[i].type = validator.type})
  IN Append(IF existingValidatorIndex # 0 THEN RemoveAt(list, existingValidatorIndex) ELSE list,
            validator)

\* validator.validator.call(context, value): "true", "false", "throws", or a
\* promise "resolvesTrue" / "resolvesFalse"
RunValidator(validator, value) ==
  CASE validator.kind = "required" -> Code(value.t \notin {"undefined", "null"})
    [] validator.kind = "enum" -> Code(ArrayIncludes(validator.arg.v, value))
    [] validator.kind = "min" ->
         Code(value.t \in {"string", "number"} => (JsLess(validator.arg, value) \/ JsEqNum(value, validator.arg)))
    [] validator.kind = "max" ->
         Code(value.t \in {"string", "number"} => (JsLess(value, validator.arg) \/ JsEqNum(value, validator.arg)))
    [] validator.kind = "match" ->
         Code(value.t = "string" => RegExpTest(validator.arg.v, << >>, value.v))
    [] validator.kind = "pass" -> "T"
    [] validator.kind = "fail" -> "F"
    [] validator.kind = "throws" -> "throws"
    [] validator.kind = "asyncPass" -> "resolvesTrue"
    [] validator.kind = "asyncFail" -> "resolvesFalse"

\* doValidate's loop from the i-th validator on, run to its end: run holds
\* the validators invoked, validatorsCompleted, err and the arguments fn was
\* called with.  handleValidationResult(ok) counts, sets err when ok ===
\* false, and calls fn(err) when the count reaches validatorCount.
RECURSIVE doValidateFrom(_, _, _, _)
doValidateFrom(list, value, i, run) ==
  IF i > Len(list) THEN run
  ELSE LET ok == RunValidator(list[i], value) \in {"T", "resolvesTrue"}
           err == run.err \/ ~ok
           validatorsCompleted == run.validatorsCompleted + 1
       IN doValidateFrom(list, value, i + 1,
            [invoked |-> Append(run.invoked, list[i]),
             validatorsCompleted |-> validatorsCompleted,
             err |-> err,
             fnCalls |-> IF validatorsCompleted = Len(list) THEN Append(run.fnCalls, err) ELSE run.fnCalls])
\* doValidate(value, fn, context), once its promise has resolved
DoValidateRun(list, value) ==
  IF Len(list) = 0
  THEN [invoked |-> << >>, validatorsCompleted |-> 0, err |-> FALSE, fnCalls |-> << FALSE >>]
  ELSE doValidateFrom(list, value, 1,
         [invoked |-> << >>, validatorsCompleted |-> 0, err |-> FALSE, fnCalls |-> << >>])

\* ------------------------------------------ inputs of the registration runs
\* validate(fn), validate({validator: fn, type: 'custom'}) and
\* validate({validator: fn, type: 'required'})
UserValidators ==
  {Validator(k, Null, "user defined") : k \in ValidatorKinds}
  \cup {Validator("fail", Null, "custom"), Validator("pass", Null, "required")}
EnumValues == {Arr(<< Num(1), Str(<< "a" >>) >>)}
MinValues == {Num(1)}
MaxValues == {Num(1), Num(2)}
MatchPatterns == {Str(<< "a" >>)}
CheckedValues == {Undefined, Num(0), Num(1), Num(2), Str(<< "a" >>)}

InitType ==
  /\ thisValidators = << >> /\ registered = << >>
  /\ checkedValue = NotCalled /\ invoked = << >> /\ fnCalls = << >>
  /\ TypeAlone

\* the guard of a builder call
CanRegister == checkedValue = NotCalled /\ Len(registered) < MaxRegistrations

\* schemaType.required(flag), flag given
SchemaType_required(flag) ==
  /\ checkedValue = NotCalled
  /\ thisValidators' = RequiredValidators(thisValidators, flag)
  /\ UNCHANGED << registered, checkedValue, invoked, fnCalls, typeFrame >>

\* schemaType.validate(obj), obj not null
SchemaType_validate(validator) ==
  /\ CanRegister
  /\ thisValidators' = ValidateValidators(thisValidators, validator)
  /\ registered' = Append(registered, validator)
  /\ UNCHANGED << checkedValue, invoked, fnCalls, typeFrame >>

\* schemaType.enum(values), values an array
SchemaType_enum(values) == SchemaType_validate(Validator("enum", values, "user defined"))
\* schemaType.min(value)
SchemaType_min(value) == SchemaType_validate(Validator("min", value, "user defined"))
\* schemaType.max(value)
SchemaType_max(value) == SchemaType_validate(Validator("max", value, "user defined"))
\* schemaType.match(regex)
SchemaType_match(re) == SchemaType_validate(Validator("match", re, "user defined"))

\* await schemaType.doValidate(value, fn)
SchemaType_doValidate(value) ==
  /\ checkedValue = NotCalled
  /\ checkedValue' = value
  /\ \E run \in {DoValidateRun(thisValidators, value)} :
       invoked' = run.invoked /\ fnCalls' = run.fnCalls
  /\ UNCHANGED << thisValidators, registered, typeFrame >>

NextType ==
  \/ \E flag \in BOOLEAN : SchemaType_required(flag)
  \/ \E validator \in UserValidators : SchemaType_validate(validator)
  \/ \E values \in EnumValues : SchemaType_enum(values)
  \/ \E value \in MinValues : SchemaType_min(value)
  \/ \E value \in MaxValues : SchemaType_max(value)
  \/ \E re \in MatchPatterns : SchemaType_match(re)
  \/ \E value \in CheckedValues : SchemaType_doValidate(value)
SpecType == InitType /\ [][NextType]_vars

\* C24: after any sequence of required, validate, enum, min, max and match
\* calls the validators list has at most one required validator, which is
\* then its first element; doValidate invokes the validators in list order
\* and calls its callback exactly once.
C24_RequiredFirst ==
  /\ \A i \in 1..Len(thisValidators) : thisValidators[i].isRequired => i = 1
  /\ checkedValue # NotCalled => (invoked = thisValidators /\ Len(fnCalls) = 1)
\* required(true) was called after two other validators were registered, and
\* doValidate has run over the three
C24_Witness ==
  /\ Len(thisValidators) = 3
  /\ thisValidators[1].isRequired
  /\ thisValidators[2].type = "custom" /\ thisValidators[3].kind = "max"
  /\ checkedValue = Num(2) /\ invoked = thisValidators /\ fnCalls = << TRUE >>

\* the k-th registered validator was registered again later (same function)
Reregistered(k) == \E m \in (k + 1)..Len(registered) : registered[m].kind = registered[k].kind
InList(list, validator) == \E i \in 1..Len(list) : list[i] = validator

\* C25: every validator registered through validate, enum, min, max or match
\* stays in the validators list when further validators are registered
\* (unless the same constraint is registered again), and doValidate runs it.
C25_KeepsValidators ==
  \A k \in 1..Len(registered) :
    Reregistered(k) \/
      /\ InList(thisValidators, registered[k])
      /\ checkedValue # NotCalled => InList(invoked, registered[k])

\* ------------------------------------------- one expression evaluation
\* strings used as expressions
Chars(name) == KeyChars[name]
Ref1(a) == Str(<< "$" >> \o Chars(a))
Ref2(a, b) == Str(<< "$" >> \o Chars(a) \o << "." >> \o Chars(b))
Ref3(a, b, c) == Str(<< "$" >> \o Chars(a) \o << "." >> \o Chars(b) \o << "." >> \o Chars(c))
References ==
  {Ref1("score"), Ref1("tags"), Ref1("total"), Ref1("meta"), Ref2("meta", "tags"),
   Ref2("meta", "score"), Ref3("meta", "tags", "score")}
\* values without a recognized operator key
Literals ==
  {Num(0), Num(1), Bool(TRUE), Bool(FALSE), Null, Undefined, Str(<< >>), Str(<< "a" >>),
   Arr(<< Num(1) >>), Obj(<< >>), Filter1("$foo", Num(1)), Filter1("score", Ref1("score"))}
OperatorExpressions ==
  {Filter1("$size", Ref1("tags")), Filter1("$size", Num(0)),
   Filter1("$sum", Ref1("tags")), Filter1("$sum", Arr(<< Ref1("score"), Num(1) >>)),
   Filter1("$add", Arr(<< Ref1("score"), Num(1) >>)), Filter1("$add", Num(1)),
   Filter1("$multiply", Arr(<< Ref1("score"), Num(2) >>)),
   Filter1("$eq", Arr(<< Ref1("score"), Num(1) >>)), Filter1("$eq", Arr(<< Ref1("score"), Null >>)),
   Filter1("$gt", Arr(<< Ref1("score"), Num(0) >>)),
   Filter1("$and", Arr(<< Ref1("score"), Bool(TRUE) >>)), Filter1("$and", Num(1)),
   Filter1("$or", Arr(<< Ref1("total"), Ref1("score") >>)),
   Filter1("$year", Ref1("score")),
   Obj(<< Entry("$foo", Num(1)), Entry("$add", Arr(<< Num(1), Num(1) >>)) >>)}
Expressions == References \cup Literals \cup OperatorExpressions
ScoreObj(n) == Filter1("score", Num(n))
EvalDocs ==
  {[_id |-> ObjectIdString(1), score |-> Num(1), tags |-> Arr(<< Str(<< "a" >>), Str(<< "b" >>) >>)],
   [_id |-> ObjectIdString(2), score |-> Null, meta |-> Filter1("tags", Arr(<< ScoreObj(1), ScoreObj(2) >>))],
   [_id |-> ObjectIdString(3), score |-> Num(0),
    meta |-> Arr(<< Filter1("tags", ScoreObj(1)), Filter1("tags", ScoreObj(2)) >>)],
   [_id |-> ObjectIdString(4), tags |-> Arr(<< Num(1), Null >>),
    meta |-> Arr(<< Filter1("score", Num(1)), Null, Num(2) >>)]}

InitExpr ==
  /\ expression \in Expressions
  /\ onDoc \in EvalDocs
  /\ evaluated = NotCalled
  /\ ExprAlone

\* this._evaluateExpression(expression, onDoc)
evaluate ==
  /\ evaluated.t = "none"
  /\ evaluated' = _evaluateExpression(expression, onDoc)
  /\ UNCHANGED << expression, onDoc, exprFrame >>
SpecExpr == InitExpr /\ [][evaluate]_vars

RecognizedOperators == {"$size", "$sum", "$add", "$multiply", "$eq", "$gt", "$and", "$or", "$year"}
IsReference(e) == e.t = "string" /\ Len(e.v) > 0 /\ e.v[1] = "$"
HasOperator(e) == e.t = "object" /\ \E i \in 1..Len(e.v) : e.v[i].k \in RecognizedOperators

\* C26: _evaluateExpression never raises, and an expression that is neither a
\* '$'-prefixed string nor an object with a recognized operator key is
\* returned as it is.
C26_LiteralPassthrough ==
  evaluated.t # "none" =>
    /\ evaluated.t # "thrown"
    /\ (~IsReference(expression) /\ ~HasOperator(expression)) => evaluated = expression

\* the remaining path, from the i-th part on, evaluated on a value: on every
\* element when the value is an array
RECURSIVE ProjectFrom(_, _, _)
ProjectFrom(value, parts, i) ==
  IF i > Len(parts) THEN value
  ELSE IF value.t \in {"undefined", "null"} THEN Null
  ELSE IF value.t = "array"
    THEN Arr([j \in 1..Len(value.v) |-> ProjectFrom(value.v[j], parts, i)])
  ELSE ProjectFrom(Prop(value, KeyOf(parts[i])), parts, i + 1)
PartsOf(e) == split(Tail(e.v), 1, << >>)

\* C27: a field reference "$p1.p2...pn" whose path meets an array gives the
\* array of the values of the whole remaining path on each element.
C27_ArrayProjection ==
  (evaluated.t # "none" /\ IsReference(expression)) =>
    evaluated = ProjectFrom(Get(onDoc, KeyOf(PartsOf(expression)[1])), PartsOf(expression), 2)

\* ------------------------------------------------------- Query (Query.js)
MaxBuilderCalls == 2
\* Object.assign(target, source) on plain objects
RECURSIVE AssignEntries(_, _, _)
AssignEntries(target, es, i) ==
  IF i > Len(es) THEN target ELSE AssignEntries(SetProp(target, es[i].k, es[i].val), es, i + 1)
ObjectAssign(target, source) == AssignEntries(target, Entries(source), 1)

\* docs.filter(doc => this._matchQuery(doc, conditions)) of Model._find
RECURSIVE _find(_, _, _)
_find(ds, conditions, i) ==
  IF i > Len(ds) THEN << >>
  ELSE (IF _matchQuery(ds[i], conditions) = "T" THEN << ds[i] >> ELSE << >>) \o _find(ds, conditions, i + 1)

\* what Query.exec resolves to for the documents _find returned, with _sort,
\* _skip, _lean, _populate and _transform as the constructor left them: the
\* Documents, or documents[0] (undefined when there is none) for _limit 1
ExecFound(found, limit) ==
  LET limited == IF Truthy(limit) THEN SubSeq(found, 1, IF limit.v < Len(found) THEN limit.v ELSE Len(found)) ELSE found
  IN IF limit = Num(1)
     THEN (IF Len(limited) > 0 THEN [t |-> "document", v |-> limited[1]] ELSE Undefined)
     ELSE [t |-> "documents", v |-> limited]
\* exec(): let docs = await this.model._find(this._conditions || this.conditions)
ExecQuery(ds, own, public, limit) ==
  ExecFound(_find(ds, IF Truthy(own) THEN own ELSE public, 1), limit)

\* ----------------------------------------------- inputs of the query runs
QueryCollections ==
  {<< >>, << StoredDoc(1, 0) >>, << StoredDoc(1, 1), StoredDoc(2, 0) >>, << StoredDoc(1, 1), StoredDoc(2, 2) >>}
QueryConditions == {Obj(<< >>), Filter1("score", Num(0)), Filter1("score", Num(1)), Filter1("__v", Num(0))}
QueryValues == {Num(0), Num(1)}

InitQuery ==
  /\ docs \in QueryCollections
  /\ now = 0 /\ versioning = TRUE /\ nextId = 3 /\ given = << >>
  /\ QueryIdle
  /\ QueryAlone

\* new Query(model, conditions), as Model.find (limit null) and Model.findOne
\* (limit 1) make it: conditions and _conditions are the same object
Query(conditions, limit) ==
  /\ made = "none"
  /\ made' = "query"
  /\ queryConditions' = conditions /\ _conditions' = conditions /\ aliased' = TRUE
  /\ _limit' = limit
  /\ UNCHANGED << clonedFrom, builderCalls, selected, existed, collVars, queryFrame >>

\* the guard of a builder call
CanBuild == made # "none" /\ selected.t = "none" /\ builderCalls < MaxBuilderCalls

\* this.conditions[path] = value; _conditions sees it when it is the same object
SetCondition(path, value) ==
  /\ CanBuild
  /\ queryConditions' = SetProp(queryConditions, path, value)
  /\ _conditions' = IF aliased THEN SetProp(queryConditions, path, value) ELSE _conditions
  /\ builderCalls' = builderCalls + 1
  /\ UNCHANGED << made, aliased, _limit, clonedFrom, selected, existed, collVars, queryFrame >>
\* query.gt(path, val), query.where(path).gt(val)
gt(path, value) == SetCondition(path, Filter1("$gt", value))
\* query.in(path, vals), query.where(path).in(vals)
in(path, vals) == SetCondition(path, Filter1("$in", IF vals.t = "array" THEN vals ELSE Arr(<< vals >>)))

\* query.find(conditions): Object.assign(this._conditions, conditions)
find(conditions) ==
  /\ CanBuild
  /\ _conditions' = ObjectAssign(_conditions, conditions)
  /\ queryConditions' = IF aliased THEN ObjectAssign(_conditions, conditions) ELSE queryConditions
  /\ builderCalls' = builderCalls + 1
  /\ UNCHANGED << made, aliased, _limit, clonedFrom, selected, existed, collVars, queryFrame >>

\* query.setQuery(conditions): this.conditions = conditions
setQuery(conditions) ==
  /\ CanBuild
  /\ queryConditions' = conditions
  /\ aliased' = FALSE
  /\ builderCalls' = builderCalls + 1
  /\ UNCHANGED << made, _conditions, _limit, clonedFrom, selected, existed, collVars, queryFrame >>
\* query.equals(val)
equals(value) == setQuery(IF typeof(value) = "object" THEN value ELSE Filter1("_id", value))

\* query.merge(source) for source = new Query(model, conditions)
merge(conditions) ==
  /\ CanBuild
  /\ queryConditions' = ObjectAssign(queryConditions, conditions)
  /\ _conditions' = IF aliased THEN ObjectAssign(queryConditions, conditions) ELSE _conditions
  /\ _limit' = Null
  /\ builderCalls' = builderCalls + 1
  /\ UNCHANGED << made, aliased, clonedFrom, selected, existed, collVars, queryFrame >>

\* query.clone(), the clone taking the query's place: new Query(this.model)
\* gives it one empty object as conditions and _conditions, then conditions
\* is replaced by a copy of the query's
clone ==
  /\ made = "query" /\ selected.t = "none"
  /\ made' = "clone"
  /\ clonedFrom' = _conditions
  /\ _conditions' = Obj(<< >>)
  /\ aliased' = FALSE
  /\ UNCHANGED << queryConditions, _limit, builderCalls, selected, existed, collVars, queryFrame >>

\* await query.exec()
QueryExec ==
  /\ made # "none" /\ selected.t = "none"
  /\ selected' = ExecQuery(docs, _conditions, queryConditions, _limit)
  /\ UNCHANGED << made, queryConditions, _conditions, aliased, _limit, clonedFrom, builderCalls, existed, collVars, queryFrame >>

\* await Model.exists(conditions): const doc = await this.findOne(conditions)
\* awaits the Query findOne returns (then calls exec); return doc !== null
exists(conditions) ==
  /\ made = "none"
  /\ made' = "query"
  /\ queryConditions' = conditions /\ _conditions' = conditions /\ aliased' = TRUE
  /\ _limit' = Num(1)
  /\ \E doc \in {ExecQuery(docs, conditions, conditions, Num(1))} :
       selected' = doc /\ existed' = Bool(doc.t # "null")
  /\ UNCHANGED << clonedFrom, builderCalls, collVars, queryFrame >>

NextQuery ==
  \/ \E c \in QueryConditions, limit \in {Null, Num(1)} : Query(c, limit)
  \/ \E value \in QueryValues : gt("score", value)
  \/ \E vals \in QueryValues \cup {Arr(<< Num(0), Num(1) >>)} : in("score", vals)
  \/ \E c \in QueryConditions : find(c)
  \/ \E c \in QueryConditions : setQuery(c)
  \/ \E value \in {ObjectIdString(1), Filter1("score", Num(1))} : equals(value)
  \/ \E c \in QueryConditions : merge(c)
  \/ clone
  \/ QueryExec
  \/ \E c \in QueryConditions : exists(c)
SpecQuery == InitQuery /\ [][NextQuery]_vars

\* C28: Model.exists(conditions) resolves to true iff at least one stored
\* document matches conditions, and to false when none matches.
C28_Exists ==
  existed.t # "none" =>
    existed = Bool(\E i \in 1..Len(docs) : _matchQuery(docs[i], queryConditions) = "T")

\* query.getFilter(): { ...this.conditions }
getFilter == queryConditions
\* C29: after any sequence of builder calls, and for a clone, exec selects
\* exactly the documents matching the filter getFilter returns; a clone
\* selects what the query it was cloned from selects.
C29_ExecFilter ==
  (selected.t # "none" /\ existed.t = "none") =>
    /\ selected = ExecFound(_find(docs, getFilter, 1), _limit)
    /\ made = "clone" => selected = ExecFound(_find(docs, clonedFrom, 1), _limit)

\* ------------------------------------------------ Connection (Connection.js)
ModelNames == {"User", "Post"}
CollectionNames == {"users", "posts"}

InitConn ==
  /\ readyState = 0 /\ models = {} /\ collections = {} /\ directory = FALSE
  /\ lastCall = "none" /\ lifecycle = "none" /\ raised = FALSE
  /\ ConnAlone

\* readyState when connect returns or throws, were the catch clause to leave
\* the state as it is
ReadyAfterConnect_Stuck(ok) == IF ok THEN 1 ELSE 2
\* readyState when connect returns or throws: 2, then 1 after mkdirSync, or 0
\* in the catch clause
ReadyAfterConnect(ok) == IF ok THEN 1 ELSE 0

\* connection.connect(); ok: fs.mkdirSync(dbPath, {recursive: true}) succeeds,
\* as it does when the directory exists
connect(ok) ==
  /\ ok \/ ~directory
  /\ readyState' = ReadyAfterConnect(ok)
  /\ directory' = (directory \/ ok)
  /\ raised' = ~ok
  /\ lastCall' = "connect"
  /\ lifecycle' = IF ok THEN "connected" ELSE "connectFailed"
  /\ UNCHANGED << models, collections, connFrame >>

\* connection.disconnect()
disconnect ==
  /\ models' = {} /\ collections' = {} /\ readyState' = 0
  /\ raised' = FALSE /\ lastCall' = "disconnect" /\ lifecycle' = "disconnect"
  /\ UNCHANGED << directory, connFrame >>

\* connection.close(): readyState = 3, this.disconnect(), readyState = 0
close ==
  /\ models' = {} /\ collections' = {} /\ readyState' = 0
  /\ raised' = FALSE /\ lastCall' = "close" /\ lifecycle' = "close"
  /\ UNCHANGED << directory, connFrame >>

\* connection.dropDatabase(); ok: fs.rmSync succeeds
dropDatabase(ok) ==
  /\ directory' = (directory /\ ~ok)
  /\ collections' = IF ok THEN {} ELSE collections
  /\ raised' = FALSE /\ lastCall' = "dropDatabase"
  /\ UNCHANGED << readyState, models, lifecycle, connFrame >>

\* connection.destroy(): this.dropDatabase(), this.close()
destroy(ok) ==
  /\ directory' = (directory /\ ~ok)
  /\ models' = {} /\ collections' = {} /\ readyState' = 0
  /\ raised' = FALSE /\ lastCall' = "destroy" /\ lifecycle' = "destroy"
  /\ UNCHANGED connFrame

\* connection.model(name, schema)
model(name) ==
  /\ models' = models \cup {name}
  /\ raised' = FALSE /\ lastCall' = "model"
  /\ UNCHANGED << readyState, collections, directory, lifecycle, connFrame >>

\* connection.collection(name)
Connection_collection(name) ==
  /\ collections' = collections \cup {name}
  /\ raised' = FALSE /\ lastCall' = "collection"
  /\ UNCHANGED << readyState, models, directory, lifecycle, connFrame >>

NextConn ==
  \/ \E ok \in BOOLEAN : connect(ok)
  \/ disconnect
  \/ close
  \/ \E ok \in BOOLEAN : dropDatabase(ok)
  \/ \E ok \in BOOLEAN : destroy(ok)
  \/ \E name \in ModelNames : model(name)
  \/ \E name \in CollectionNames : Connection_collection(name)
SpecConn == InitConn /\ [][NextConn]_vars

\* C30: readyState is 1 exactly when the last of the connect, disconnect,
\* close and destroy calls was a successful connect, and 0 otherwise (never 2
\* or 3); a failed connect leaves it 0 and raises; right after disconnect or
\* close the models and collections registries are empty.
C30_Lifecycle ==
  /\ readyState = (IF lifecycle = "connected" THEN 1 ELSE 0)
  /\ (lastCall = "connect" /\ lifecycle = "connectFailed") => raised
  /\ lastCall \in {"disconnect", "close"} => (models = {} /\ collections = {})
\* a connect that failed on a connection with its models registered
C30_Witness ==
  /\ lastCall = "connect" /\ lifecycle = "connectFailed" /\ raised
  /\ readyState = 0 /\ ~directory /\ models = ModelNames
====
